---- MODULE Spec2Model ----
(***************************************************************************)
(* LabFlow: the experiment analysis modal (ExperimentAnalysisModal) and    *)
(* the section that opens it (ExperimentsSection).                         *)
(*                                                                         *)
(* JavaScript numbers are modelled as exact values: a finite number is a   *)
(* reduced fraction n/d, and Infinity, -Infinity and NaN are kept as       *)
(* separate kinds with the IEEE-754 rules for them.  Rounding of finite    *)
(* results is not modelled, and +0 and -0 are one value.  Math.sqrt is     *)
(* kept exact as well: its result is a "root", s * sqrt(n/d).              *)
(***************************************************************************)
EXTENDS Integers, Sequences, FiniteSets, TLC

VARIABLES selectedExperiment, statistics, correlations,
          activeTab, selectedParams, chartType,
          corrValue, corrStrength,
          showNewExp, step, experimentName, parameters, dataRows, newParam,
          loading, uploadLoading, uploadSuccess, created,
          isOpen, reason, error, called,
          appLoading, projects, currentProject, currentPage, requests,
          server, lastChosen, analyzing

\* ExperimentsSection and ExperimentAnalysisModal
analysisVars == <<selectedExperiment, statistics, correlations,
                  activeTab, selectedParams, chartType,
                  corrValue, corrStrength>>

\* Dashboard.showNewExp and NewExperimentModal; created is the argument of
\* the modal's last call of onCreate
wizardVars == <<showNewExp, step, experimentName, parameters, dataRows,
                newParam, loading, uploadLoading, uploadSuccess, created>>

\* ChangeReasonModal: its isOpen prop and its state; called is the list of
\* the callbacks its last handler called
reasonVars == <<isOpen, reason, error, called>>

\* App (appLoading is its loading), Dashboard.analyzing, the requests in
\* flight, the projects the server holds, and the id of the project chosen
\* last
appVars == <<appLoading, projects, currentProject, currentPage, requests,
             server, lastChosen, analyzing>>

vars == <<analysisVars, wizardVars, reasonVars, appVars>>

\* what the handlers of one component leave alone
notAnalysisVars == <<wizardVars, reasonVars, appVars>>

notWizardVars == <<analysisVars, reasonVars, appVars>>

notReasonVars == <<analysisVars, wizardVars, appVars>>

notAppVars == <<analysisVars, wizardVars, reasonVars>>

(***************************************************************************)
(* Bounds of the model.                                                    *)
(***************************************************************************)
MaxRows == 3

\* the correlations classified on their own are multiples of 1 / MaxParts
\* and of 1 / (2 * MaxParts)
MaxParts == 10

(***************************************************************************)
(* JavaScript numbers.                                                     *)
(***************************************************************************)
RECURSIVE GCD(_, _)
GCD(a, b) == IF b = 0 THEN a ELSE GCD(b, a % b)

AbsInt(a) == IF a < 0 THEN -a ELSE a

SignInt(a) == IF a < 0 THEN -1 ELSE IF a > 0 THEN 1 ELSE 0

\* the finite number n/d (d # 0), reduced, with a positive denominator
Fin(n, d) ==
    LET g == GCD(AbsInt(n), AbsInt(d))
        s == IF d < 0 THEN -1 ELSE 1
    IN  [k |-> "fin", n |-> (s * n) \div g, d |-> (s * d) \div g]

Int2Num(i) == [k |-> "fin", n |-> i, d |-> 1]

PosInf == [k |-> "inf", n |-> 0, d |-> 1]

NegInf == [k |-> "ninf", n |-> 0, d |-> 1]

NaN == [k |-> "nan", n |-> 0, d |-> 1]

Zero == Int2Num(0)

IsNaN(a) == a.k = "nan"

IsFinite(a) == a.k = "fin"

\* -1, 0 or 1; not meant for NaN
Sign(a) ==
    CASE a.k = "inf" -> 1
      [] a.k = "ninf" -> -1
      [] OTHER -> SignInt(a.n)

Signed(s) == IF s > 0 THEN PosInf ELSE NegInf

Neg(a) ==
    CASE a.k = "nan" -> NaN
      [] a.k = "inf" -> NegInf
      [] a.k = "ninf" -> PosInf
      [] OTHER -> Fin(-a.n, a.d)

\* a + b
Add(a, b) ==
    CASE IsNaN(a) \/ IsNaN(b) -> NaN
      [] IsFinite(a) /\ IsFinite(b) -> Fin(a.n * b.d + b.n * a.d, a.d * b.d)
      [] IsFinite(a) -> b
      [] IsFinite(b) -> a
      [] OTHER -> IF a.k = b.k THEN a ELSE NaN

\* a - b
Sub(a, b) == Add(a, Neg(b))

\* a * b
Mul(a, b) ==
    CASE IsNaN(a) \/ IsNaN(b) -> NaN
      [] IsFinite(a) /\ IsFinite(b) -> Fin(a.n * b.n, a.d * b.d)
      [] OTHER -> IF Sign(a) * Sign(b) = 0 THEN NaN ELSE Signed(Sign(a) * Sign(b))

\* a / b
Div(a, b) ==
    CASE IsNaN(a) \/ IsNaN(b) -> NaN
      [] IsFinite(a) /\ IsFinite(b) ->
            IF b.n = 0
            THEN IF a.n = 0 THEN NaN ELSE Signed(Sign(a))
            ELSE Fin(a.n * b.d, a.d * b.n)
      [] IsFinite(a) -> Zero
      [] IsFinite(b) -> Signed(Sign(a) * (IF Sign(b) < 0 THEN -1 ELSE 1))
      [] OTHER -> NaN

\* a < b (false when either is NaN)
Lt(a, b) ==
    /\ ~IsNaN(a)
    /\ ~IsNaN(b)
    /\ CASE IsFinite(a) /\ IsFinite(b) -> a.n * b.d < b.n * a.d
         [] a.k = "ninf" -> b.k # "ninf"
         [] b.k = "inf" -> a.k # "inf"
         [] OTHER -> FALSE

Gt(a, b) == Lt(b, a)

\* Math.pow(a, 2)
Pow2(a) == Mul(a, a)

(***************************************************************************)
(* Roots: the value s * sqrt(n/d), s in {-1, 0, 1}, or a non-finite kind.  *)
(***************************************************************************)
Root(s, q) ==
    IF s = 0 \/ q.n = 0
    THEN [k |-> "fin", s |-> 0, n |-> 0, d |-> 1]
    ELSE [k |-> "fin", s |-> s, n |-> q.n, d |-> q.d]

RootNaN == [k |-> "nan", s |-> 0, n |-> 0, d |-> 1]

RootInf(s) == [k |-> IF s > 0 THEN "inf" ELSE "ninf", s |-> s, n |-> 0, d |-> 1]

RootZero == Root(0, Zero)

\* the square of the magnitude of a finite root, as a number
RootSq(r) == Fin(r.n, r.d)

\* a number as a root: q = sign(q) * sqrt(q * q)
NumRoot(q) ==
    CASE q.k = "nan" -> RootNaN
      [] q.k = "inf" -> RootInf(1)
      [] q.k = "ninf" -> RootInf(-1)
      [] OTHER -> Root(Sign(q), Mul(q, q))

\* Math.sqrt(a)
Sqrt(a) ==
    CASE IsNaN(a) -> RootNaN
      [] a.k = "ninf" -> RootNaN
      [] a.k = "inf" -> RootInf(1)
      [] OTHER -> IF a.n < 0 THEN RootNaN ELSE Root(Sign(a), a)

\* r * t
RootMul(r, t) ==
    CASE r.k = "nan" \/ t.k = "nan" -> RootNaN
      [] r.k = "fin" /\ t.k = "fin" -> Root(r.s * t.s, Mul(RootSq(r), RootSq(t)))
      [] OTHER -> IF r.s * t.s = 0 THEN RootNaN ELSE RootInf(r.s * t.s)

\* r / t
RootDiv(r, t) ==
    CASE r.k = "nan" \/ t.k = "nan" -> RootNaN
      [] r.k = "fin" /\ t.k = "fin" ->
            IF t.s = 0
            THEN IF r.s = 0 THEN RootNaN ELSE RootInf(r.s)
            ELSE Root(r.s * t.s, Div(RootSq(r), RootSq(t)))
      [] r.k = "fin" -> RootZero
      [] t.k = "fin" -> RootInf(r.s * (IF t.s < 0 THEN -1 ELSE 1))
      [] OTHER -> RootNaN

\* r < t (false when either is NaN)
RootLt(r, t) ==
    /\ r.k # "nan"
    /\ t.k # "nan"
    /\ CASE r.k = "fin" /\ t.k = "fin" ->
              IF r.s # t.s THEN r.s < t.s
              ELSE IF r.s > 0 THEN Lt(RootSq(r), RootSq(t))
              ELSE IF r.s < 0 THEN Lt(RootSq(t), RootSq(r))
              ELSE FALSE
         [] r.k = "ninf" -> t.k # "ninf"
         [] t.k = "inf" -> r.k # "inf"
         [] OTHER -> FALSE

RootGt(r, t) == RootLt(t, r)

\* Math.abs(r)
RootAbs(r) ==
    CASE r.k = "ninf" -> RootInf(1)
      [] r.k = "fin" -> [r EXCEPT !.s = AbsInt(r.s)]
      [] OTHER -> r

(***************************************************************************)
(* Cell values and parseFloat.  A cell is a string (a sequence of          *)
(* characters) or undefined (the row has no such key).                     *)
(***************************************************************************)
Str(s) == [t |-> "string", s |-> s]

Undefined == [t |-> "undefined", s |-> <<>>]

Digits == {"0", "1", "2", "3", "4", "5", "6", "7", "8", "9"}

DigitVal(c) ==
    CASE c = "0" -> 0 [] c = "1" -> 1 [] c = "2" -> 2 [] c = "3" -> 3
      [] c = "4" -> 4 [] c = "5" -> 5 [] c = "6" -> 6 [] c = "7" -> 7
      [] c = "8" -> 8 [] c = "9" -> 9

InfinityText == <<"I", "n", "f", "i", "n", "i", "t", "y">>

StartsWith(s, p) == Len(s) >= Len(p) /\ SubSeq(s, 1, Len(p)) = p

\* leading white space is skipped
RECURSIVE SkipWs(_)
SkipWs(s) == IF s # <<>> /\ Head(s) = " " THEN SkipWs(Tail(s)) ELSE s

\* the length of the longest prefix of s made of digits
RECURSIVE DigitRun(_)
DigitRun(s) == IF s # <<>> /\ Head(s) \in Digits THEN 1 + DigitRun(Tail(s)) ELSE 0

\* the decimal value of the first k characters of s, all digits
RECURSIVE DigitsVal(_, _)
DigitsVal(s, k) == IF k = 0 THEN 0 ELSE DigitsVal(s, k - 1) * 10 + DigitVal(s[k])

RECURSIVE Pow10(_)
Pow10(k) == IF k = 0 THEN 1 ELSE 10 * Pow10(k - 1)

\* parseFloat(cell): the longest prefix that is a decimal literal (sign,
\* digits, fraction) or a signed "Infinity"; NaN when there is none.  The
\* cell texts of the model hold no exponent part.
ParseFloat(cell) ==
    IF cell.t = "undefined" THEN NaN
    ELSE
      LET t == SkipWs(cell.s)
          signed == t # <<>> /\ Head(t) \in {"-", "+"}
          sgn == IF t # <<>> /\ Head(t) = "-" THEN -1 ELSE 1
          u == IF signed THEN Tail(t) ELSE t
          ni == DigitRun(u)
          rest == SubSeq(u, ni + 1, Len(u))
          frac == IF rest # <<>> /\ Head(rest) = "." THEN Tail(rest) ELSE <<>>
          nf == DigitRun(frac)
      IN  IF StartsWith(u, InfinityText) THEN Signed(sgn)
          ELSE IF ni = 0 /\ nf = 0 THEN NaN
          ELSE Fin(sgn * (DigitsVal(u, ni) * Pow10(nf) + DigitsVal(frac, nf)), Pow10(nf))

(***************************************************************************)
(* Experiments: { parameters: [{name, unit}], data: [row] }.               *)
(***************************************************************************)
Names(params) == {params[i].name : i \in DOMAIN params}

\* row[name]: undefined when the row has no such key
Cell(row, name) == IF name \in DOMAIN row THEN row[name] ELSE Undefined

\* one parameter, every kind of cell
OneParam == <<[name |-> "x", unit |-> "mg"]>>

OneParamCells ==
    {Undefined, Str(<<>>), Str(<<"a", "b", "c">>),
     Str(<<"5">>), Str(<<"6">>), Str(<<"7">>), Str(<<"-", "5">>),
     Str(InfinityText), Str(<<"-">> \o InfinityText)}

\* two parameters, numeric and non-numeric cells (B with one text fewer)
TwoParams == <<[name |-> "A", unit |-> "C"], [name |-> "B", unit |-> "%"]>>

ACells == {Str(<<"a", "b", "c">>), Str(<<"5">>), Str(<<"6">>), Str(<<"7">>)}

BCells == {Str(<<"a", "b", "c">>), Str(<<"5">>), Str(<<"7">>)}

\* three parameters, the third one constant
ThreeParams ==
    <<[name |-> "P", unit |-> "g"], [name |-> "Q", unit |-> "s"], [name |-> "R", unit |-> ""]>>

PCells == {Str(<<"5">>), Str(<<"6">>)}

QCells == {Str(<<"5">>), Str(<<"7">>)}

RCells == {Str(<<"5">>)}

\* two parameters added under the same name: addParameter only rejects a
\* blank name, and handleSubmit builds every row by parameter name
SameName == <<[name |-> "x", unit |-> "mg"], [name |-> "x", unit |-> "g"]>>

SameNameCells == {Str(<<"5">>), Str(<<"6">>)}

\* the experiments of the model: a parameter list and the rows its data
\* table is made of
ExperimentKinds ==
    {[parameters |-> <<>>, rows |-> {[name \in {} |-> Undefined]}],
     [parameters |-> OneParam, rows |-> [{"x"} -> OneParamCells]],
     [parameters |-> TwoParams, rows |-> {[A |-> a, B |-> b] : a \in ACells, b \in BCells}],
     [parameters |-> ThreeParams,
      rows |-> {[P |-> p, Q |-> q, R |-> r] : p \in PCells, q \in QCells, r \in RCells}],
     [parameters |-> SameName, rows |-> [{"x"} -> SameNameCells]]}

\* the data tables of a kind with m rows
DataOf(kind, m) == [1..m -> kind.rows]

Null == [null |-> TRUE]

\* the value of a text that is not there: the state of a component that is
\* not mounted, a field not yet written
NoText == ""

(***************************************************************************)
(* statistics = useMemo(...): descriptive statistics of every parameter.   *)
(***************************************************************************)
\* data.map(row => parseFloat(row[param.name]))
Parsed(name, data) == [i \in DOMAIN data |-> ParseFloat(Cell(data[i], name))]

KeepValue(v) == ~IsNaN(v)

\* a cell without a number counted as 0 instead of being dropped
Values_ZeroFilled(name, data) ==
    [i \in DOMAIN data |->
        IF IsNaN(Parsed(name, data)[i]) THEN Zero ELSE Parsed(name, data)[i]]

\* data.map(row => parseFloat(row[param.name])).filter(v => !isNaN(v))
Values(name, data) == SelectSeq(Parsed(name, data), KeepValue)

\* values.reduce((a, b) => a + b, 0)
RECURSIVE SumSeq(_)
SumSeq(s) ==
    IF s = <<>> THEN Zero
    ELSE Add(SumSeq(SubSeq(s, 1, Len(s) - 1)), s[Len(s)])

\* the comparator (a, b) => a - b puts b before a when a - b > 0
Compare(a, b) == Sub(a, b)

RECURSIVE Insert(_, _)
Insert(sorted, x) ==
    IF sorted = <<>> THEN <<x>>
    ELSE IF Gt(Compare(sorted[Len(sorted)], x), Zero)
         THEN Append(Insert(SubSeq(sorted, 1, Len(sorted) - 1), x), sorted[Len(sorted)])
         ELSE Append(sorted, x)

\* [...values].sort((a, b) => a - b)
RECURSIVE SortAscending(_)
SortAscending(s) ==
    IF s = <<>> THEN <<>>
    ELSE Insert(SortAscending(SubSeq(s, 1, Len(s) - 1)), s[Len(s)])

\* one step of Math.min: NaN if either is NaN, else the smaller
MinStep(m, v) == IF IsNaN(m) \/ IsNaN(v) THEN NaN ELSE IF Lt(v, m) THEN v ELSE m

\* Math.min(...s): Infinity for no argument, NaN if any argument is NaN
RECURSIVE MathMin(_)
MathMin(s) ==
    IF s = <<>> THEN PosInf
    ELSE MinStep(MathMin(SubSeq(s, 1, Len(s) - 1)), s[Len(s)])

\* one step of Math.max: NaN if either is NaN, else the larger
MaxStep(m, v) == IF IsNaN(m) \/ IsNaN(v) THEN NaN ELSE IF Gt(v, m) THEN v ELSE m

\* Math.max(...s): -Infinity for no argument, NaN if any argument is NaN
RECURSIVE MathMax(_)
MathMax(s) ==
    IF s = <<>> THEN NegInf
    ELSE MaxStep(MathMax(SubSeq(s, 1, Len(s) - 1)), s[Len(s)])

Median(values) ==
    LET n == Len(values)
        sortedValues == SortAscending(values)
    IN  IF n % 2 = 0
        THEN Div(Add(sortedValues[n \div 2], sortedValues[n \div 2 + 1]), Int2Num(2))
        ELSE sortedValues[n \div 2 + 1]

\* values.reduce((sum, v) => sum + Math.pow(v - mean, 2), 0) / n
RECURSIVE SumSqDev(_, _)
SumSqDev(s, mean) ==
    IF s = <<>> THEN Zero
    ELSE Add(SumSqDev(SubSeq(s, 1, Len(s) - 1), mean), Pow2(Sub(s[Len(s)], mean)))

Variance(values, mean) == Div(SumSqDev(values, mean), Int2Num(Len(values)))

\* the x coordinate of values[i] (1-based i) in the trend loop: the index
\* of the value in the filtered array
TrendX(values, i) == Int2Num(i - 1)

\* numerator after the first k values of values.forEach((y, x) => ...)
RECURSIVE TrendNumerator(_, _, _, _)
TrendNumerator(values, mean, xMean, k) ==
    IF k = 0 THEN Zero
    ELSE Add(TrendNumerator(values, mean, xMean, k - 1),
             Mul(Sub(TrendX(values, k), xMean), Sub(values[k], mean)))

RECURSIVE TrendDenominator(_, _, _)
TrendDenominator(values, xMean, k) ==
    IF k = 0 THEN Zero
    ELSE Add(TrendDenominator(values, xMean, k - 1),
             Pow2(Sub(TrendX(values, k), xMean)))

\* the positions centred on n / 2 instead of (n - 1) / 2
Trend_OffCentre(values, mean) ==
    LET n == Len(values)
        xMean == Div(Int2Num(n), Int2Num(2))
        numerator == TrendNumerator(values, mean, xMean, n)
        denominator == TrendDenominator(values, xMean, n)
    IN  IF n > 1
        THEN IF denominator # Zero THEN Div(numerator, denominator) ELSE Zero
        ELSE Zero

Trend(values, mean) ==
    LET n == Len(values)
        xMean == Div(Int2Num(n - 1), Int2Num(2))
        numerator == TrendNumerator(values, mean, xMean, n)
        denominator == TrendDenominator(values, xMean, n)
    IN  IF n > 1
        THEN IF denominator # Zero THEN Div(numerator, denominator) ELSE Zero
        ELSE Zero

\* values.sort(...) in place for the median: the trend and the values
\* stored are those of the sorted array
StatsObject_SortedInPlace(values) ==
    LET n == Len(values)
        mean == Div(SumSeq(values), Int2Num(n))
        min == MathMin(values)
        max == MathMax(values)
        variance == Variance(values, mean)
        stdDev == Sqrt(variance)
    IN  [n |-> n,
         mean |-> mean,
         median |-> Median(values),
         min |-> min,
         max |-> max,
         range |-> Sub(max, min),
         stdDev |-> stdDev,
         variance |-> variance,
         cv |-> RootMul(RootDiv(stdDev, NumRoot(mean)), NumRoot(Int2Num(100))),
         trend |-> Trend(SortAscending(values), mean),
         values |-> SortAscending(values)]

\* the statistics object built from the kept values (at least one)
StatsObject(values) ==
    LET n == Len(values)
        mean == Div(SumSeq(values), Int2Num(n))
        min == MathMin(values)
        max == MathMax(values)
        variance == Variance(values, mean)
        stdDev == Sqrt(variance)
    IN  [n |-> n,
         mean |-> mean,
         median |-> Median(values),
         min |-> min,
         max |-> max,
         range |-> Sub(max, min),
         stdDev |-> stdDev,
         variance |-> variance,
         cv |-> RootMul(RootDiv(stdDev, NumRoot(mean)), NumRoot(Int2Num(100))),
         trend |-> Trend(values, mean),
         values |-> values]

\* a zero-filled object instead of null for a parameter without values
ParamStats_ZeroFilled(name, data) ==
    IF Len(Values(name, data)) = 0
    THEN [n |-> 0, mean |-> Zero, median |-> Zero, min |-> Zero, max |-> Zero,
          range |-> Zero, stdDev |-> RootZero, variance |-> Zero, cv |-> RootZero,
          trend |-> Zero, values |-> <<>>]
    ELSE StatsObject(Values(name, data))

\* one parameter of params.forEach: null when no value is kept
ParamStats(name, data) ==
    IF Len(Values(name, data)) = 0 THEN Null ELSE StatsObject(Values(name, data))

ComputeStatistics(params, data) == [name \in Names(params) |-> ParamStats(name, data)]

(***************************************************************************)
(* correlations = useMemo(...): pairwise correlations of the parameters.   *)
(***************************************************************************)
EmptyMap == [key \in {} |-> Null]

\* obj[key] = value
Put(obj, key, value) ==
    [x \in DOMAIN obj \cup {key} |-> IF x = key THEN value ELSE obj[x]]

\* `${p1}-${p2}`
PairKey(p1, p2) == p1 \o "-" \o p2

\* the pairs <<i, j>>, i < j, in the order of the nested loops (1-based)
RECURSIVE PairsFrom(_, _, _)
PairsFrom(i, j, n) ==
    IF i > n THEN <<>>
    ELSE IF j > n THEN PairsFrom(i + 1, i + 2, n)
    ELSE <<<<i, j>>>> \o PairsFrom(i, j + 1, n)

Pairs(n) == PairsFrom(1, 2, n)

MinInt(a, b) == IF a < b THEN a ELSE b

\* the number of leading values the correlation loop pairs up
PairCount(s1, s2) == MinInt(Len(s1.values), Len(s2.values))

\* one paired value taken as enough
PairComputed_OneIsEnough(s1, s2) ==
    /\ s1 # Null
    /\ s2 # Null
    /\ PairCount(s1, s2) >= 1

\* the guards of the loop body: both statistics exist and n >= 2
PairComputed(s1, s2) ==
    /\ s1 # Null
    /\ s2 # Null
    /\ PairCount(s1, s2) >= 2

\* sum after the first k steps of the loop over k
RECURSIVE CrossSum(_, _, _)
CrossSum(s1, s2, k) ==
    IF k = 0 THEN Zero
    ELSE Add(CrossSum(s1, s2, k - 1),
             Mul(Sub(s1.values[k], s1.mean), Sub(s2.values[k], s2.mean)))

\* the sum divided by (n - 1) * std1 * std2
Correlation_SampleDivisor(s1, s2) ==
    LET n == PairCount(s1, s2)
        sum == CrossSum(s1, s2, n)
    IN  IF RootGt(s1.stdDev, RootZero) /\ RootGt(s2.stdDev, RootZero)
        THEN RootDiv(NumRoot(sum),
                     RootMul(RootMul(NumRoot(Int2Num(n - 1)), s1.stdDev), s2.stdDev))
        ELSE RootZero

\* the division done whatever the standard deviations are
Correlation_Unguarded(s1, s2) ==
    LET n == PairCount(s1, s2)
        sum == CrossSum(s1, s2, n)
    IN  RootDiv(NumRoot(sum),
                RootMul(RootMul(NumRoot(Int2Num(n)), s1.stdDev), s2.stdDev))

\* std1 > 0 && std2 > 0 ? sum / (n * std1 * std2) : 0
Correlation(s1, s2) ==
    LET n == PairCount(s1, s2)
        sum == CrossSum(s1, s2, n)
    IN  IF RootGt(s1.stdDev, RootZero) /\ RootGt(s2.stdDev, RootZero)
        THEN RootDiv(NumRoot(sum),
                     RootMul(RootMul(NumRoot(Int2Num(n)), s1.stdDev), s2.stdDev))
        ELSE RootZero

\* both thresholds taken as inclusive
Strength_Inclusive(correlation) ==
    IF correlation.k # "nan" /\ ~RootLt(RootAbs(correlation), NumRoot(Fin(7, 10))) THEN "strong"
    ELSE IF correlation.k # "nan" /\ ~RootLt(RootAbs(correlation), NumRoot(Fin(4, 10))) THEN "moderate"
    ELSE "weak"

\* Math.abs(correlation) > 0.7 ? 'strong' : Math.abs(correlation) > 0.4 ? 'moderate' : 'weak'
Strength(correlation) ==
    IF RootGt(RootAbs(correlation), NumRoot(Fin(7, 10))) THEN "strong"
    ELSE IF RootGt(RootAbs(correlation), NumRoot(Fin(4, 10))) THEN "moderate"
    ELSE "weak"

CorrelationEntry(p1, p2, stats) ==
    LET correlation == Correlation(stats[p1], stats[p2])
    IN  [param1 |-> p1,
         param2 |-> p2,
         value |-> correlation,
         strength |-> Strength(correlation)]

\* corrs after the first k pairs of the nested loops
RECURSIVE CorrelationLoop(_, _, _, _)
CorrelationLoop(paramNames, stats, pairs, k) ==
    IF k = 0 THEN EmptyMap
    ELSE LET corrs == CorrelationLoop(paramNames, stats, pairs, k - 1)
             p1 == paramNames[pairs[k][1]]
             p2 == paramNames[pairs[k][2]]
         IN  IF PairComputed(stats[p1], stats[p2])
             THEN Put(corrs, PairKey(p1, p2), CorrelationEntry(p1, p2, stats))
             ELSE corrs

ComputeCorrelations(params, stats) ==
    LET paramNames == [i \in DOMAIN params |-> params[i].name]
        pairs == Pairs(Len(paramNames))
    IN  CorrelationLoop(paramNames, stats, pairs, Len(pairs))

(***************************************************************************)
(* The state machine.  ExperimentsSection holds selectedExperiment; while  *)
(* it is set, ExperimentAnalysisModal is mounted: it holds activeTab,      *)
(* selectedParams and chartType, and its render computes the two memos     *)
(* from the experiment.  corrValue and corrStrength are the value and      *)
(* strength of one entry being stored; they are state in StrengthSpec.     *)
(* The other components start in the states given first; each has a        *)
(* specification of its own further down.                                  *)
(***************************************************************************)
\* Dashboard: showNewExp = useState(false); NewExperimentModal: the initial
\* values of its state.  Texts typed into the wizard are sequences of
\* characters.  uploadError and showFullTable only change what is shown.
WizardInit ==
    /\ showNewExp = FALSE
    /\ step = 1
    /\ experimentName = <<>>
    /\ parameters = <<>>
    /\ dataRows = <<>>
    /\ newParam = [name |-> <<>>, unit |-> <<>>]
    /\ loading = FALSE
    /\ uploadLoading = FALSE
    /\ uploadSuccess = FALSE
    /\ created = Null

\* ChangeReasonModal: reason = useState(''), error = useState(''); the
\* parent has not opened it
ReasonInit ==
    /\ isOpen = FALSE
    /\ reason = <<>>
    /\ error = NoText
    /\ called = <<>>

\* the projects the server holds at the start
InitialServer ==
    <<[id |-> 1, stage |-> "brainstorm"], [id |-> 2, stage |-> "brainstorm"]>>

\* App: its initial state, loadProjects in flight; Dashboard: analyzing =
\* useState(false)
AppInit ==
    /\ appLoading = TRUE
    /\ projects = <<>>
    /\ currentProject = Null
    /\ currentPage = "dashboard"
    /\ requests = <<>>
    /\ server = InitialServer
    /\ lastChosen = 0
    /\ analyzing = FALSE

\* no experiment selected, the analysis modal not mounted
Init ==
    /\ selectedExperiment = Null
    /\ statistics = Null
    /\ correlations = Null
    /\ activeTab = NoText
    /\ selectedParams = <<>>
    /\ chartType = NoText
    /\ corrValue = Null
    /\ corrStrength = NoText
    /\ WizardInit
    /\ ReasonInit
    /\ AppInit

\* params.slice(0, 2).map(p => p.name)
FirstTwoNames(params) == [i \in 1..MinInt(2, Len(params)) |-> params[i].name]

\* the effect run after the mount, on selectedParams = []:
\* if (params.length > 0 && selectedParams.length === 0) setSelectedParams(...)
MountEffect(params, selected) ==
    IF Len(params) > 0 /\ Len(selected) = 0 THEN FirstTwoNames(params) ELSE selected

\* ExperimentsSection.handleAnalyze, followed by the modal's mount: the
\* initial state, the effect, and the render.  The experiment cards are
\* covered by the modal's backdrop while it is open.
HandleAnalyze(experiment) ==
    /\ selectedExperiment' = experiment
    /\ statistics' = ComputeStatistics(experiment.parameters, experiment.data)
    /\ correlations' = ComputeCorrelations(experiment.parameters, statistics')
    /\ activeTab' = "overview"
    /\ selectedParams' = MountEffect(experiment.parameters, <<>>)
    /\ chartType' = "line"
    /\ UNCHANGED <<corrValue, corrStrength>>
    /\ UNCHANGED notAnalysisVars

\* onClose: setSelectedExperiment(null) unmounts the modal
OnClose ==
    /\ selectedExperiment # Null
    /\ selectedExperiment' = Null
    /\ statistics' = Null
    /\ correlations' = Null
    /\ activeTab' = NoText
    /\ selectedParams' = <<>>
    /\ chartType' = NoText
    /\ UNCHANGED <<corrValue, corrStrength>>
    /\ UNCHANGED notAnalysisVars

\* a click on the Analyze button of one of the experiment cards
ClickAnalyze ==
    /\ selectedExperiment = Null
    /\ \E kind \in ExperimentKinds, m \in 0..MaxRows :
          \E data \in DataOf(kind, m) :
             HandleAnalyze([parameters |-> kind.parameters, data |-> data])

Next ==
    \/ ClickAnalyze
    \/ OnClose

Spec == Init /\ [][Next]_vars

(***************************************************************************)
(* The strength classification on its own: one turn of the correlation     *)
(* loop from the computed correlation to the strength stored with it.      *)
(***************************************************************************)
\* the correlations classified: the fractions t / MaxParts and
\* t / (2 * MaxParts), |t| <= 2 * MaxParts, and NaN
CorrelationValues ==
    {NumRoot(Fin(t, p)) : t \in (0 - 2 * MaxParts)..(2 * MaxParts),
                          p \in {MaxParts, 2 * MaxParts}}
      \cup {RootNaN}

StrengthInit ==
    /\ selectedExperiment = Null
    /\ statistics = Null
    /\ correlations = Null
    /\ activeTab = NoText
    /\ selectedParams = <<>>
    /\ chartType = NoText
    /\ corrValue \in CorrelationValues
    /\ corrStrength = NoText
    /\ WizardInit
    /\ ReasonInit
    /\ AppInit

\* strength: Math.abs(correlation) > 0.7 ? ... of the entry being stored
Classify ==
    /\ corrStrength = NoText
    /\ corrStrength' = Strength(corrValue)
    /\ UNCHANGED <<selectedExperiment, statistics, correlations,
                   activeTab, selectedParams, chartType, corrValue>>
    /\ UNCHANGED notAnalysisVars

StrengthNext == Classify

StrengthSpec == StrengthInit /\ [][StrengthNext]_vars

(***************************************************************************)
(* The Charts tab: the parameter and chart type buttons of ChartsTab, its  *)
(* legend, and SVGChart.  Colors are indices into COLORS; coordinates are  *)
(* those inside the translated data group.                                 *)
(***************************************************************************)
\* Math.abs(a)
Abs(a) ==
    CASE a.k = "ninf" -> PosInf
      [] a.k = "fin" -> Fin(AbsInt(a.n), a.d)
      [] OTHER -> a

\* a || 1
OrOne(a) == IF IsNaN(a) \/ a = Zero THEN Int2Num(1) ELSE a

\* COLORS.length
NumColors == 6

\* COLORS[i % COLORS.length]
Color(i) == i % NumColors

width == 700

height == 300

paddingTop == 20

paddingRight == 30

paddingBottom == 40

paddingLeft == 60

chartWidth == Int2Num(width - paddingLeft - paddingRight)

chartHeight == Int2Num(height - paddingTop - paddingBottom)

tickCount == 5

\* selected.includes(name)
Includes(selected, name) == \E i \in DOMAIN selected : selected[i] = name

\* the click on a parameter button: the name is taken out of the list, or
\* put at its end
Toggle(selected, name) ==
    IF Includes(selected, name)
    THEN SelectSeq(selected, LAMBDA p : p # name)
    ELSE Append(selected, name)

\* params.filter(p => selectedParams.includes(p.name))
FilterParams(params, selected) ==
    SelectSeq(params, LAMBDA p : Includes(selected, p.name))

\* allValues after the first k parameters of params.forEach
RECURSIVE AllValues(_, _, _)
AllValues(data, params, k) ==
    IF k = 0 THEN <<>>
    ELSE AllValues(data, params, k - 1) \o Values(params[k].name, data)

\* i / (data.length - 1 || 1) * chartWidth, i counted from 0
ScaleX(i, data) ==
    Mul(Div(Int2Num(i), OrOne(Int2Num(Len(data) - 1))), chartWidth)

\* chartHeight - ((v - minY) / yRange) * chartHeight
ScaleY(v, minY, yRange) ==
    Sub(chartHeight, Mul(Div(Sub(v, minY), yRange), chartHeight))

\* yTicks: value and y of tick i = 0..tickCount
YTicks(minY, yRange) ==
    [t \in 1..(tickCount + 1) |->
        LET value == Add(minY, Div(Mul(yRange, Int2Num(t - 1)), Int2Num(tickCount)))
        IN  [value |-> value, y |-> ScaleY(value, minY, yRange)]]

\* values.map((v, i) => ({x: scaleX(i), y: scaleY(v), valid: !isNaN(v)}))
ValidPoints(name, data, minY, yRange) ==
    [i \in DOMAIN data |->
        [x |-> ScaleX(i - 1, data),
         y |-> ScaleY(Parsed(name, data)[i], minY, yRange),
         valid |-> ~IsNaN(Parsed(name, data)[i])]]

\* validPoints.filter(p => p.valid)
Drawn(points) == SelectSeq(points, LAMBDA p : p.valid)

\* line and scatter: a circle at every valid point (the path of the line
\* chart goes through the same points)
Circles(points) ==
    [i \in DOMAIN Drawn(points) |-> [x |-> Drawn(points)[i].x, y |-> Drawn(points)[i].y]]

\* (chartWidth / data.length / params.length) * 0.8
BarWidth(data, params) ==
    Mul(Div(Div(chartWidth, Int2Num(Len(data))), Int2Num(Len(params))), Fin(8, 10))

\* x of the i-th rect of validPoints.filter(p => p.valid).map((p, i) => ...),
\* i counted from 0
BarX(i, paramIndex, data, params) ==
    LET barWidth == BarWidth(data, params)
        offset == Mul(Int2Num(paramIndex), barWidth)
    IN  Add(Sub(ScaleX(i, data), Div(Mul(barWidth, Int2Num(Len(params))), Int2Num(2))),
            offset)

\* bar: a rect for every valid point
Bars(points, paramIndex, data, params) ==
    [i \in DOMAIN Drawn(points) |->
        [x |-> BarX(i - 1, paramIndex, data, params),
         y |-> Drawn(points)[i].y,
         width |-> BarWidth(data, params),
         height |-> Sub(chartHeight, Drawn(points)[i].y)]]

\* the group drawn for one parameter, paramIndex counted from 0
Series(param, paramIndex, data, params, type, minY, yRange) ==
    LET validPoints == ValidPoints(param.name, data, minY, yRange)
    IN  [name |-> param.name,
         color |-> Color(paramIndex),
         marks |-> CASE type = "line" -> Circles(validPoints)
                     [] type = "bar" -> Bars(validPoints, paramIndex, data, params)
                     [] type = "scatter" -> Circles(validPoints)
                     [] OTHER -> <<>>]

\* if (!stats || Math.abs(stats.trend) < 0.1) return null
TrendDrawn(stats) == stats # Null /\ ~Lt(Abs(stats.trend), Fin(1, 10))

\* the dashed line of one parameter, i counted from 0, or null
TrendLine(param, i, data, stats, minY, yRange) ==
    IF ~TrendDrawn(stats) THEN Null
    ELSE LET half == Div(Mul(stats.trend, Int2Num(Len(data) - 1)), Int2Num(2))
             startY == Sub(stats.mean, half)
             endY == Add(stats.mean, half)
         IN  [name |-> param.name,
              color |-> Color(i),
              x1 |-> Zero,
              y1 |-> ScaleY(startY, minY, yRange),
              x2 |-> chartWidth,
              y2 |-> ScaleY(endY, minY, yRange)]

NoDataToDisplay == [kind |-> "placeholder", text |-> "No data to display"]

SVGChart(data, params, stats, type) ==
    IF Len(data) = 0 \/ Len(params) = 0 THEN NoDataToDisplay
    ELSE LET allValues == AllValues(data, params, Len(params))
             minY == MathMin(allValues)
             maxY == MathMax(allValues)
             yRange == OrOne(Sub(maxY, minY))
         IN  [kind |-> "svg",
              yTicks |-> YTicks(minY, yRange),
              series |-> [k \in DOMAIN params |->
                            Series(params[k], k - 1, data, params, type, minY, yRange)],
              trendLines |-> IF type = "line"
                             THEN [k \in DOMAIN params |->
                                     TrendLine(params[k], k - 1, data,
                                               stats[params[k].name], minY, yRange)]
                             ELSE <<>>]

SelectParametersToVisualize ==
    [kind |-> "placeholder", text |-> "Select parameters to visualize"]

\* the chart is handed to SVGChart even when no parameter is selected
ChartArea_AlwaysChart(params, data, stats, selected, type) ==
    SVGChart(data, params, stats, type)

\* the card of ChartsTab that holds the chart
ChartArea(params, data, stats, selected, type) ==
    IF Len(selected) > 0
    THEN SVGChart(data, FilterParams(params, selected), stats, type)
    ELSE SelectParametersToVisualize

\* the legend of ChartsTab: nothing when no parameter is selected
Legend(selected) ==
    [i \in DOMAIN selected |-> [name |-> selected[i], color |-> Color(i - 1)]]

(***************************************************************************)
(* The Overview tab: the trend indicator of a parameter's card.            *)
(***************************************************************************)
\* stats.trend > 0.1 ? increasing : stats.trend < -0.1 ? decreasing : stable
TrendIndicator(stats) ==
    IF Gt(stats.trend, Fin(1, 10)) THEN "Increasing trend"
    ELSE IF Lt(stats.trend, Fin(-1, 10)) THEN "Decreasing trend"
    ELSE "Stable"

(***************************************************************************)
(* The Correlations tab: CorrelationMatrix.                                *)
(***************************************************************************)
\* a value on the left of ||: 0 and NaN are falsy
Truthy(value) == value.k # "nan" /\ value # RootZero

\* correlations[key]?.value taken by ||: there, and neither 0 nor NaN
Taken(corrs, key) == key \in DOMAIN corrs /\ Truthy(corrs[key].value)

\* the number in the cell of row p1 and column p2
GetCorrelation(corrs, p1, p2) ==
    LET key1 == PairKey(p1, p2)
        key2 == PairKey(p2, p1)
    IN  IF p1 = p2 THEN NumRoot(Int2Num(1))
        ELSE IF Taken(corrs, key1) THEN corrs[key1].value
        ELSE IF Taken(corrs, key2) THEN corrs[key2].value
        ELSE RootZero

\* the cells of the table, row by row; the table is rendered when
\* params.length > 1
CorrelationMatrix(params, corrs) ==
    [i \in DOMAIN params |->
        [j \in DOMAIN params |-> GetCorrelation(corrs, params[i].name, params[j].name)]]

(***************************************************************************)
(* The modal in use: tabs, parameter buttons and chart type buttons.       *)
(***************************************************************************)
\* the experiments opened for the Charts tab: no parameter, and A with
\* gaps against B with small steps
ChartACells == {Str(<<"a", "b", "c">>), Str(<<"5">>), Str(<<"7">>)}

ChartBCells == {Str(<<"0">>), Str(<<"0", ".", "1">>)}

\* one parameter with numbers of both signs and a cell that parseFloat
\* reads as -Infinity
ChartXCells == {Str(<<"5">>), Str(<<"-", "5">>), Str(<<"-">> \o InfinityText)}

ModalKinds ==
    {[parameters |-> <<>>, rows |-> {[name \in {} |-> Undefined]}],
     [parameters |-> OneParam, rows |-> [{"x"} -> ChartXCells]],
     [parameters |-> TwoParams,
      rows |-> {[A |-> a, B |-> b] : a \in ChartACells, b \in ChartBCells}]}

\* the names on the parameter buttons of these experiments
ModalNames == UNION {Names(kind.parameters) : kind \in ModalKinds}

tabs == {"overview", "charts", "statistics", "correlations"}

chartTypes == {"line", "bar", "scatter"}

\* a click on the Analyze button of one of the experiment cards
ClickAnalyzeCard ==
    /\ selectedExperiment = Null
    /\ \E kind \in ModalKinds, m \in 0..MaxRows :
          \E data \in DataOf(kind, m) :
             HandleAnalyze([parameters |-> kind.parameters, data |-> data])

\* a click on a tab button
SetActiveTab(tab) ==
    /\ selectedExperiment # Null
    /\ activeTab' = tab
    /\ UNCHANGED <<selectedExperiment, statistics, correlations,
                   selectedParams, chartType, corrValue, corrStrength>>
    /\ UNCHANGED notAnalysisVars

\* a click on a parameter button of the Charts tab
ToggleParam(name) ==
    /\ selectedExperiment # Null
    /\ activeTab = "charts"
    /\ name \in Names(selectedExperiment.parameters)
    /\ selectedParams' = Toggle(selectedParams, name)
    /\ UNCHANGED <<selectedExperiment, statistics, correlations,
                   activeTab, chartType, corrValue, corrStrength>>
    /\ UNCHANGED notAnalysisVars

\* a click on a chart type button of the Charts tab
SetChartType(type) ==
    /\ selectedExperiment # Null
    /\ activeTab = "charts"
    /\ chartType' = type
    /\ UNCHANGED <<selectedExperiment, statistics, correlations,
                   activeTab, selectedParams, corrValue, corrStrength>>
    /\ UNCHANGED notAnalysisVars

ModalNext ==
    \/ ClickAnalyzeCard
    \/ \E tab \in tabs : SetActiveTab(tab)
    \/ \E name \in ModalNames : ToggleParam(name)
    \/ \E type \in chartTypes : SetChartType(type)
    \/ OnClose

ModalSpec == Init /\ [][ModalNext]_vars

(***************************************************************************)
(* Properties.                                                             *)
(***************************************************************************)
Open == selectedExperiment # Null

\* a <= b (false when either is NaN)
Le(a, b) == ~IsNaN(a) /\ ~IsNaN(b) /\ ~Lt(b, a)

ParamNames == Names(selectedExperiment.parameters)

Rows == selectedExperiment.data

\* what each cell text of the model stands for, read off the text itself:
\* the number it denotes, or NaN when it denotes none
TextNumber(cell) ==
    CASE cell = Str(<<"5">>) -> Int2Num(5)
      [] cell = Str(<<"6">>) -> Int2Num(6)
      [] cell = Str(<<"7">>) -> Int2Num(7)
      [] cell = Str(<<"-", "5">>) -> Int2Num(-5)
      [] cell = Str(<<"0">>) -> Zero
      [] cell = Str(<<"0", ".", "1">>) -> Fin(1, 10)
      [] cell = Str(InfinityText) -> PosInf
      [] cell = Str(<<"-">> \o InfinityText) -> NegInf
      [] OTHER -> NaN

\* the rows whose cell for a parameter is a number
NumericRows(name) == {i \in DOMAIN Rows : ~IsNaN(TextNumber(Cell(Rows[i], name)))}

RowNumber(name, i) == TextNumber(Cell(Rows[i], name))

\* the sum of the numbers of a set of rows
RECURSIVE RowSum(_, _)
RowSum(name, rows) ==
    IF rows = {} THEN Zero
    ELSE LET i == CHOOSE r \in rows : TRUE
         IN  Add(RowNumber(name, i), RowSum(name, rows \ {i}))

AllFinite(name) == \A i \in NumericRows(name) : IsFinite(RowNumber(name, i))

\* C1: for every parameter with a numeric row, n is the number of rows whose
\* cell is a number and mean is the sum of those numbers divided by n; the
\* other rows (missing, empty, non-numeric) contribute nothing.  Rows
\* "5", "abc", "7" give n = 2 and mean = 6.
C1_CountAndMean ==
    Open =>
      \A name \in ParamNames :
        NumericRows(name) # {} =>
          /\ statistics[name] # Null
          /\ statistics[name].n = Cardinality(NumericRows(name))
          /\ statistics[name].mean =
                Div(RowSum(name, NumericRows(name)),
                    Int2Num(Cardinality(NumericRows(name))))

FiveAbcSeven ==
    <<[x |-> Str(<<"5">>)], [x |-> Str(<<"a", "b", "c">>)], [x |-> Str(<<"7">>)]>>

C1_Witness ==
    /\ Open
    /\ Rows = FiveAbcSeven
    /\ statistics["x"] # Null
    /\ statistics["x"].n = 2
    /\ statistics["x"].mean = Int2Num(6)

\* C2: a parameter without any numeric row has the entry null, never a
\* statistics object, whatever the rows are (also with no row at all).
C2_NoValuesNoStatistics ==
    Open =>
      \A name \in ParamNames :
        NumericRows(name) = {} => statistics[name] = Null

C2_Witness ==
    /\ Open
    /\ "x" \in ParamNames
    /\ Len(Rows) = 2
    /\ NumericRows("x") = {}
    /\ statistics["x"] = Null

\* C3: for every parameter with statistics, min <= median <= max and
\* min <= mean <= max.
C3_MedianAndMeanWithinRange ==
    Open =>
      \A name \in ParamNames :
        statistics[name] # Null =>
          LET st == statistics[name]
          IN  /\ Le(st.min, st.median)
              /\ Le(st.median, st.max)
              /\ Le(st.min, st.mean)
              /\ Le(st.mean, st.max)

\* the statement of C3 for the parameters whose numbers are all finite
C3_FiniteValues ==
    Open =>
      \A name \in ParamNames :
        statistics[name] # Null /\ AllFinite(name) =>
          LET st == statistics[name]
          IN  /\ Le(st.min, st.median)
              /\ Le(st.median, st.max)
              /\ Le(st.min, st.mean)
              /\ Le(st.mean, st.max)

AllEqual(s) == \A i, j \in DOMAIN s : s[i] = s[j]

\* C4: for every parameter with statistics, stdDev >= 0, and stdDev = 0
\* exactly when all its values are equal.
C4_StdDevZeroIffConstant ==
    Open =>
      \A name \in ParamNames :
        statistics[name] # Null =>
          LET st == statistics[name]
          IN  /\ ~RootLt(st.stdDev, RootZero) /\ st.stdDev.k # "nan"
              /\ (st.stdDev = RootZero) <=> AllEqual(st.values)

\* the statement of C4 for the parameters whose numbers are all finite
C4_FiniteValues ==
    Open =>
      \A name \in ParamNames :
        statistics[name] # Null /\ AllFinite(name) =>
          LET st == statistics[name]
          IN  /\ ~RootLt(st.stdDev, RootZero) /\ st.stdDev.k # "nan"
              /\ (st.stdDev = RootZero) <=> AllEqual(st.values)

\* the numbers of a parameter, in row order
RECURSIVE NumbersFrom(_, _)
NumbersFrom(name, i) ==
    IF i > Len(Rows) THEN <<>>
    ELSE IF i \in NumericRows(name)
         THEN <<RowNumber(name, i)>> \o NumbersFrom(name, i + 1)
         ELSE NumbersFrom(name, i + 1)

Numbers(name) == NumbersFrom(name, 1)

\* s is an arithmetic sequence of finite numbers with common difference d
Arithmetic(s, d) ==
    /\ \A i \in DOMAIN s : IsFinite(s[i])
    /\ \A i \in 1..(Len(s) - 1) : Sub(s[i + 1], s[i]) = d

\* C5: when the numbers of a parameter are an arithmetic sequence of at
\* least 2 values with common difference d, its trend is d (0 for a constant
\* sequence); with exactly one number its trend is 0.
C5_TrendOfArithmeticSequence ==
    Open =>
      \A name \in ParamNames :
        LET v == Numbers(name)
        IN  /\ (Len(v) >= 2 /\ Arithmetic(v, Sub(v[2], v[1]))) =>
                  statistics[name].trend = Sub(v[2], v[1])
            /\ (Len(v) >= 2 /\ Arithmetic(v, Zero)) => statistics[name].trend = Zero
            /\ Len(v) = 1 => statistics[name].trend = Zero

C5_Witness ==
    /\ Open
    /\ "x" \in ParamNames
    /\ Numbers("x") = <<Int2Num(7), Int2Num(6), Int2Num(5)>>
    /\ statistics["x"].trend = Int2Num(-1)

\* the least-squares slope of the numbers of a parameter against the index
\* of the row each one came from (0 when the positions have no spread)
RowSlope(name) ==
    LET rows == NumericRows(name)
        n == Int2Num(Cardinality(rows))
        SumOf(f(_)) ==
            LET RECURSIVE S(_)
                S(rs) == IF rs = {} THEN Zero
                         ELSE LET i == CHOOSE r \in rs : TRUE
                              IN  Add(f(i), S(rs \ {i}))
            IN  S(rows)
        X(i) == Int2Num(i - 1)
        Y(i) == RowNumber(name, i)
        xMean == Div(SumOf(X), n)
        yMean == Div(SumOf(Y), n)
        Cov(i) == Mul(Sub(X(i), xMean), Sub(Y(i), yMean))
        Var(i) == Pow2(Sub(X(i), xMean))
    IN  IF SumOf(Var) = Zero THEN Zero ELSE Div(SumOf(Cov), SumOf(Var))

\* C6: the trend of a parameter is the least-squares slope of its numbers
\* against the index of the row each came from, also when some of its rows
\* are missing or non-numeric.
C6_TrendAgainstRowIndex ==
    Open =>
      \A name \in ParamNames :
        statistics[name] # Null => statistics[name].trend = RowSlope(name)

\* the rows in which both parameters are numbers
SharedRows(a, b) == NumericRows(a) \cap NumericRows(b)

\* the pairs of parameters the nested loops visit, as names
NamePairs ==
    LET ps == selectedExperiment.parameters
    IN  {<<ps[ij[1]].name, ps[ij[2]].name>> :
            ij \in {x \in (DOMAIN ps) \X (DOMAIN ps) : x[1] < x[2]}}

HasEntry(a, b) == PairKey(a, b) \in DOMAIN correlations

\* C7: an entry for A and B exists only if at least 2 rows are numeric for
\* both A and B.
C7_EntryNeedsTwoSharedRows ==
    Open =>
      \A pair \in NamePairs :
        HasEntry(pair[1], pair[2]) =>
          Cardinality(SharedRows(pair[1], pair[2])) >= 2

\* C8: every stored correlation value lies in [-1, 1].
C8_ValueWithinUnitInterval ==
    Open =>
      \A key \in DOMAIN correlations :
        LET value == correlations[key].value
        IN  /\ value.k = "fin"
            /\ ~RootGt(RootAbs(value), NumRoot(Int2Num(1)))

\* C9: the pair is skipped, with no entry at all, when either parameter has
\* no numeric row or when the smaller of the two counts of numeric rows is
\* below 2.
C9_SkippedBelowTwoValues ==
    Open =>
      \A pair \in NamePairs :
        LET nA == Cardinality(NumericRows(pair[1]))
            nB == Cardinality(NumericRows(pair[2]))
        IN  (nA = 0 \/ nB = 0 \/ MinInt(nA, nB) < 2) => ~HasEntry(pair[1], pair[2])

C9_Witness ==
    /\ Open
    /\ NamePairs = {<<"A", "B">>}
    /\ Cardinality(NumericRows("A")) = 1
    /\ Cardinality(NumericRows("B")) = 3
    /\ ~HasEntry("A", "B")

\* b = slope * a + c on every row, for some c and a slope of the given sign:
\* rows p and q with a[p] # a[q] fix the slope, and every pair of rows
\* agrees with it
LinearIn(a, b, sign) ==
    \E p, q \in DOMAIN a :
      /\ a[p] # a[q]
      /\ Sign(Div(Sub(b[p], b[q]), Sub(a[p], a[q]))) = sign
      /\ \A i, j \in DOMAIN a :
            Mul(Sub(b[i], b[j]), Sub(a[p], a[q])) = Mul(Sub(b[p], b[q]), Sub(a[i], a[j]))

NumericOnEveryRow(name) == NumericRows(name) = DOMAIN Rows /\ AllFinite(name)

\* C10: for two parameters numeric on every row, A not constant: if B is an
\* increasing linear function of A (B = A included) the stored correlation
\* is 1 and strong; if B is a decreasing linear function of A it is -1.
C10_LinearlyRelatedSeries ==
    Open =>
      \A pair \in NamePairs :
        (NumericOnEveryRow(pair[1]) /\ NumericOnEveryRow(pair[2])) =>
          LET a == Numbers(pair[1])
              b == Numbers(pair[2])
              key == PairKey(pair[1], pair[2])
          IN  /\ LinearIn(a, b, 1) =>
                    /\ HasEntry(pair[1], pair[2])
                    /\ correlations[key].value = NumRoot(Int2Num(1))
                    /\ correlations[key].strength = "strong"
              /\ LinearIn(a, b, -1) =>
                    /\ HasEntry(pair[1], pair[2])
                    /\ correlations[key].value = NumRoot(Int2Num(-1))

C10_Witness ==
    /\ Open
    /\ NamePairs = {<<"A", "B">>}
    /\ Numbers("A") = <<Int2Num(5), Int2Num(6), Int2Num(6)>>
    /\ Numbers("B") = <<Int2Num(7), Int2Num(5), Int2Num(5)>>
    /\ correlations["A-B"].value = NumRoot(Int2Num(-1))
    /\ correlations["A-B"].strength = "strong"

\* the positions of a name in the parameter list
PositionsOf(name) ==
    {i \in DOMAIN selectedExperiment.parameters : selectedExperiment.parameters[i].name = name}

\* the entry pairs two different parameters, the first one earlier in the
\* parameter list, and is stored under "param1-param2"
EntryOfOrderedPair(key) ==
    LET entry == correlations[key]
    IN  /\ entry.param1 # entry.param2
        /\ key = PairKey(entry.param1, entry.param2)
        /\ \E i \in PositionsOf(entry.param1), j \in PositionsOf(entry.param2) : i < j

\* no two entries are about the same two parameters
OneEntryPerPair ==
    \A k1, k2 \in DOMAIN correlations :
      {correlations[k1].param1, correlations[k1].param2}
        = {correlations[k2].param1, correlations[k2].param2} => k1 = k2

DistinctNames ==
    \A i, j \in DOMAIN selectedExperiment.parameters :
      selectedExperiment.parameters[i].name = selectedExperiment.parameters[j].name => i = j

\* C11: the correlation map has at most one entry per unordered pair of
\* distinct parameters, no entry pairs a parameter with itself, and every
\* entry is stored under "A-B" with param1 = A, param2 = B and A before B in
\* the parameter list.
C11_OneEntryPerDistinctPair ==
    Open => (OneEntryPerPair /\ \A key \in DOMAIN correlations : EntryOfOrderedPair(key))

\* the same, for the experiments whose parameter names are pairwise distinct
C11_DistinctNames ==
    (Open /\ DistinctNames) =>
      (OneEntryPerPair /\ \A key \in DOMAIN correlations : EntryOfOrderedPair(key))

\* three parameters, every pair stored once in list order
C11_ThreePairs ==
    /\ Open
    /\ Len(selectedExperiment.parameters) = 3
    /\ DOMAIN correlations = {"P-Q", "P-R", "Q-R"}

\* two parameters named "x": the series is correlated with itself
C11_SelfPair ==
    /\ Open
    /\ "x-x" \in DOMAIN correlations
    /\ correlations["x-x"].param1 = correlations["x-x"].param2

\* |value| > num / den, decided on the squares: value = s * sqrt(n / d)
MagnitudeAbove(value, num, den) ==
    \/ value.k \in {"inf", "ninf"}
    \/ value.k = "fin" /\ (den * den) * value.n > (num * num) * value.d

Classified(value, label) ==
    LET above7 == MagnitudeAbove(value, 7, 10)
        above4 == MagnitudeAbove(value, 4, 10)
    IN  /\ label \in {"strong", "moderate", "weak"}
        /\ label = "strong" <=> above7
        /\ label = "moderate" <=> (above4 /\ ~above7)
        /\ label = "weak" <=> ~above4

C12_ExactlyFourTenths ==
    /\ corrStrength = "weak"
    /\ corrValue = NumRoot(Fin(4, 10))

\* the same classification, of the entries stored for an experiment
C12_StoredEntries ==
    Open =>
      \A key \in DOMAIN correlations :
        Classified(correlations[key].value, correlations[key].strength)

\* A = 5, 6, 7 against B = 5, 7, 7: sqrt(3)/2 = 0.866, strong
C12_Strong ==
    /\ Open
    /\ "A-B" \in DOMAIN correlations
    /\ correlations["A-B"].value = Root(1, Fin(3, 4))
    /\ correlations["A-B"].strength = "strong"

\* C13: when either parameter of a pair has stdDev = 0 and both have at
\* least 2 values, the stored value is exactly 0 and the entry is weak.
C13_ConstantSeriesGivesZero ==
    Open =>
      \A pair \in NamePairs :
        LET s1 == statistics[pair[1]]
            s2 == statistics[pair[2]]
        IN  (/\ s1 # Null
             /\ s2 # Null
             /\ s1.n >= 2
             /\ s2.n >= 2
             /\ (s1.stdDev = RootZero \/ s2.stdDev = RootZero)) =>
              /\ HasEntry(pair[1], pair[2])
              /\ correlations[PairKey(pair[1], pair[2])].value = RootZero
              /\ correlations[PairKey(pair[1], pair[2])].strength = "weak"

\* A constant (5, 5, 5) against B varying (5, 7, 5)
C13_Witness ==
    /\ Open
    /\ NamePairs = {<<"A", "B">>}
    /\ Numbers("A") = <<Int2Num(5), Int2Num(5), Int2Num(5)>>
    /\ Numbers("B") = <<Int2Num(5), Int2Num(7), Int2Num(5)>>
    /\ statistics["A"].stdDev = RootZero
    /\ statistics["B"].stdDev # RootZero
    /\ correlations["A-B"].value = RootZero
    /\ correlations["A-B"].strength = "weak"

\* the modal shows the given tab
Showing(tab) == Open /\ activeTab = tab

\* C14: a pair omitted from the correlation result is never presented with
\* the value 0: the cells of the correlation matrix for that pair do not
\* show 0.
C14_OmittedPairNotShownAsZero ==
    (Showing("correlations") /\ Len(selectedExperiment.parameters) > 1) =>
      LET params == selectedExperiment.parameters
          matrix == CorrelationMatrix(params, correlations)
      IN  \A i, j \in DOMAIN params :
            (/\ i < j
             /\ ~HasEntry(params[i].name, params[j].name)
             /\ ~HasEntry(params[j].name, params[i].name)) =>
               /\ matrix[i][j] # RootZero
               /\ matrix[j][i] # RootZero

\* one row: no entry for A and B, and 0 in both cells of the matrix
C14_ZeroInTheMatrix ==
    /\ Showing("correlations")
    /\ selectedExperiment.parameters = TwoParams
    /\ Len(Rows) = 1
    /\ DOMAIN correlations = {}
    /\ CorrelationMatrix(selectedExperiment.parameters, correlations)[1][2] = RootZero

\* the values stored for every parameter are its numbers in row order
ValuesInRowOrder ==
    Open =>
      \A name \in ParamNames :
        statistics[name] # Null => statistics[name].values = Numbers(name)

\* the memos are those of the experiment as it is held
MemosOfTheExperiment ==
    Open =>
      /\ statistics = ComputeStatistics(selectedExperiment.parameters, selectedExperiment.data)
      /\ correlations = ComputeCorrelations(selectedExperiment.parameters, statistics)

\* C15: computing statistics and correlations, and rendering any tab, leaves
\* the parameter list and the rows as they were, and `values` keeps the
\* rows' original order.
C15_InputsKeptAndValuesInRowOrder ==
    /\ [](ValuesInRowOrder /\ MemosOfTheExperiment)
    /\ [][(Open /\ Open') =>
            UNCHANGED <<selectedExperiment, statistics, correlations>>]_vars

\* A = 7, abc, 5: values 7, 5 and median 6, with the Correlations tab shown
C15_Witness ==
    /\ Showing("correlations")
    /\ selectedExperiment.parameters = TwoParams
    /\ Len(Rows) = 3
    /\ Rows[1].A = Str(<<"7">>)
    /\ Rows[2].A = Str(<<"a", "b", "c">>)
    /\ Rows[3].A = Str(<<"5">>)
    /\ statistics["A"].values = <<Int2Num(7), Int2Num(5)>>
    /\ statistics["A"].median = Int2Num(6)

\* what the chart card of the Charts tab shows
ChartAreaNow ==
    ChartArea(selectedExperiment.parameters, Rows, statistics, selectedParams, chartType)

\* C16: with no parameter selected or no data row the chart card shows the
\* placeholder and no chart; with no parameter selected it stays so until a
\* click on a parameter button selects one.
C16_PlaceholderWhenNothingToDraw ==
    /\ []((Showing("charts") /\ (Len(selectedParams) = 0 \/ Len(Rows) = 0)) =>
            ChartAreaNow.kind = "placeholder")
    /\ [][(Open /\ Open' /\ Len(selectedParams) = 0 /\ Len(selectedParams') # 0) =>
            /\ activeTab = "charts"
            /\ \E name \in ParamNames : selectedParams' = <<name>>]_vars

\* both parameters deselected, rows present
C16_Witness ==
    /\ Showing("charts")
    /\ selectedExperiment.parameters = TwoParams
    /\ Len(Rows) = 2
    /\ selectedParams = <<>>
    /\ ChartAreaNow = SelectParametersToVisualize

\* parameters selected, no row
C16_NoRows ==
    /\ Showing("charts")
    /\ selectedParams = <<"A", "B">>
    /\ Len(Rows) = 0
    /\ ChartAreaNow = NoDataToDisplay

\* C17: the chart draws the series of every selected parameter, and its
\* trend line, in color (i mod 6), i being the parameter's position in the
\* selected-parameter list: the color the legend shows for it.
C17_SeriesColorBySelectionOrder ==
    (Showing("charts") /\ ChartAreaNow.kind = "svg") =>
      \A i \in DOMAIN selectedParams :
        /\ Legend(selectedParams)[i].color = (i - 1) % NumColors
        /\ \E k \in DOMAIN ChartAreaNow.series :
              /\ ChartAreaNow.series[k].name = selectedParams[i]
              /\ ChartAreaNow.series[k].color = (i - 1) % NumColors
        /\ \A k \in DOMAIN ChartAreaNow.trendLines :
              (/\ ChartAreaNow.trendLines[k] # Null
               /\ ChartAreaNow.trendLines[k].name = selectedParams[i]) =>
                 ChartAreaNow.trendLines[k].color = (i - 1) % NumColors

\* A deselected and selected again: the legend has B first, the chart A
C17_LegendAndChartDisagree ==
    /\ Showing("charts")
    /\ selectedParams = <<"B", "A">>
    /\ ChartAreaNow.kind = "svg"
    /\ Legend(selectedParams)[2] = [name |-> "A", color |-> 1]
    /\ ChartAreaNow.series[1].name = "A"
    /\ ChartAreaNow.series[1].color = 0

\* the j-th row (from 1) that has a number for the parameter
NthNumericRow(name, j) ==
    CHOOSE i \in NumericRows(name) :
      Cardinality({r \in NumericRows(name) : r <= i}) = j

\* C18: in bar mode every series has exactly one bar for every row with a
\* number, at that row's x (the scaled row index, centred on the group of
\* bars) shifted by the series index times the bar width.
C18_BarAtItsRow ==
    (Showing("charts") /\ chartType = "bar" /\ ChartAreaNow.kind = "svg") =>
      LET params == FilterParams(selectedExperiment.parameters, selectedParams)
          barWidth == BarWidth(Rows, params)
          group == Div(Mul(barWidth, Int2Num(Len(params))), Int2Num(2))
      IN  \A k \in DOMAIN ChartAreaNow.series :
            LET name == ChartAreaNow.series[k].name
                bars == ChartAreaNow.series[k].marks
            IN  /\ Len(bars) = Cardinality(NumericRows(name))
                /\ \A j \in DOMAIN bars :
                      bars[j].x =
                        Add(Sub(ScaleX(NthNumericRow(name, j) - 1, Rows), group),
                            Mul(Int2Num(k - 1), barWidth))

\* A = abc, 5: the one bar of A is drawn at the x of row 1, not of row 2
C18_BarAtAnotherRow ==
    /\ Showing("charts")
    /\ chartType = "bar"
    /\ selectedParams = <<"A">>
    /\ Len(Rows) = 2
    /\ NumericRows("A") = {2}
    /\ ChartAreaNow.series[1].marks[1].x = Sub(ScaleX(0, Rows), Div(BarWidth(Rows, <<1>>), Int2Num(2)))

\* rows without a gap: the bars are at their rows
C18_NoGap ==
    (Showing("charts") /\ chartType = "bar" /\ ChartAreaNow.kind = "svg"
       /\ \A name \in ParamNames : NumericRows(name) = DOMAIN Rows) =>
      LET params == FilterParams(selectedExperiment.parameters, selectedParams)
          barWidth == BarWidth(Rows, params)
          group == Div(Mul(barWidth, Int2Num(Len(params))), Int2Num(2))
      IN  \A k \in DOMAIN ChartAreaNow.series :
            \A j \in DOMAIN ChartAreaNow.series[k].marks :
               ChartAreaNow.series[k].marks[j].x =
                 Add(Sub(ScaleX(j - 1, Rows), group), Mul(Int2Num(k - 1), barWidth))

\* the parameters handed to SVGChart
ChartParamsNow == FilterParams(selectedExperiment.parameters, selectedParams)

\* the chart has a dashed trend line for the k-th of its parameters
HasTrendLine(k) ==
    /\ k \in DOMAIN ChartAreaNow.trendLines
    /\ ChartAreaNow.trendLines[k] # Null

\* the magnitude of the trend exceeds 0.1
TrendExceedsThreshold(stats) == Gt(Abs(stats.trend), Fin(1, 10))

\* C19: the trend line of a selected series is drawn iff the chart type is
\* line, the series has statistics and |trend| > 0.1, which is also when
\* the series is labelled increasing or decreasing; never in bar or scatter
\* mode.
C19_TrendLineIffAboveThreshold ==
    (Showing("charts") /\ ChartAreaNow.kind = "svg") =>
      \A k \in DOMAIN ChartParamsNow :
        LET stats == statistics[ChartParamsNow[k].name]
        IN  /\ HasTrendLine(k) <=>
                 (chartType = "line" /\ stats # Null /\ TrendExceedsThreshold(stats))
            /\ stats # Null =>
                 (TrendExceedsThreshold(stats) <=> TrendIndicator(stats) # "Stable")

\* B = 0, 0.1: trend exactly 0.1, labelled stable, and the line is drawn
C19_LineAtTheThreshold ==
    /\ Showing("charts")
    /\ chartType = "line"
    /\ selectedParams = <<"A", "B">>
    /\ Len(Rows) = 2
    /\ statistics["B"] # Null
    /\ statistics["B"].trend = Fin(1, 10)
    /\ TrendIndicator(statistics["B"]) = "Stable"
    /\ HasTrendLine(2)

\* the same with the threshold of the code, |trend| >= 0.1
C19_AtOrAboveThreshold ==
    (Showing("charts") /\ ChartAreaNow.kind = "svg") =>
      \A k \in DOMAIN ChartParamsNow :
        LET stats == statistics[ChartParamsNow[k].name]
        IN  HasTrendLine(k) <=>
              (chartType = "line" /\ stats # Null /\ ~Lt(Abs(stats.trend), Fin(1, 10)))

\* the y scale of the chart shown, from the numbers of its parameters
ScaleYNow(v) ==
    LET allValues == AllValues(Rows, ChartParamsNow, Len(ChartParamsNow))
        minY == MathMin(allValues)
    IN  ScaleY(v, minY, OrOne(Sub(MathMax(allValues), minY)))

\* half the rise of the trend over the n values of the series
HalfRise(stats) == Div(Mul(stats.trend, Int2Num(stats.n - 1)), Int2Num(2))

\* C20: the trend line of a series goes from y = mean - trend * (n - 1) / 2
\* at the left edge to y = mean + trend * (n - 1) / 2 at the right edge, n
\* being the n of the series' statistics, through the chart's y scale.
C20_TrendLineEnds ==
    (Showing("charts") /\ ChartAreaNow.kind = "svg") =>
      \A k \in DOMAIN ChartParamsNow :
        HasTrendLine(k) =>
          LET stats == statistics[ChartParamsNow[k].name]
              line == ChartAreaNow.trendLines[k]
          IN  /\ line.x1 = Zero
              /\ line.x2 = chartWidth
              /\ line.y1 = ScaleYNow(Sub(stats.mean, HalfRise(stats)))
              /\ line.y2 = ScaleYNow(Add(stats.mean, HalfRise(stats)))

\* A = 5, abc, 7: n = 2, mean 6, trend 2; the line is drawn from 4 to 8,
\* not from 5 to 7
C20_LineOverAllRows ==
    /\ Showing("charts")
    /\ chartType = "line"
    /\ selectedParams = <<"A">>
    /\ Len(Rows) = 3
    /\ Numbers("A") = <<Int2Num(5), Int2Num(7)>>
    /\ NumericRows("A") = {1, 3}
    /\ HasTrendLine(1)
    /\ ChartAreaNow.trendLines[1].y1 = ScaleYNow(Int2Num(4))
    /\ ChartAreaNow.trendLines[1].y2 = ScaleYNow(Int2Num(8))

\* every row of the series numeric: n is data.length and the ends are right
C20_NoGap ==
    (Showing("charts") /\ ChartAreaNow.kind = "svg") =>
      \A k \in DOMAIN ChartParamsNow :
        (HasTrendLine(k) /\ statistics[ChartParamsNow[k].name].n = Len(Rows)) =>
          LET stats == statistics[ChartParamsNow[k].name]
              line == ChartAreaNow.trendLines[k]
          IN  /\ line.y1 = ScaleYNow(Sub(stats.mean, HalfRise(stats)))
              /\ line.y2 = ScaleYNow(Add(stats.mean, HalfRise(stats)))

\* the Y domain of the chart shown
AllValuesNow == AllValues(Rows, ChartParamsNow, Len(ChartParamsNow))

MinYNow == MathMin(AllValuesNow)

MaxYNow == MathMax(AllValuesNow)

YRangeNow == OrOne(Sub(MaxYNow, MinYNow))

\* the points of the k-th series of the chart shown that are drawn
DrawnPointsNow(k) == Drawn(ValidPoints(ChartParamsNow[k].name, Rows, MinYNow, YRangeNow))

\* a finite number between 0 and max
Within(v, max) == IsFinite(v) /\ Le(Zero, v) /\ Le(v, max)

\* C21: whenever the chart is drawn and some selected value is numeric,
\* every valid point of every series has finite coordinates with
\* 0 <= x <= plot width and 0 <= y <= plot height.
C21_PointsInsideThePlot ==
    (Showing("charts") /\ ChartAreaNow.kind = "svg" /\ Len(AllValuesNow) > 0) =>
      \A k \in DOMAIN ChartParamsNow :
        \A j \in DOMAIN DrawnPointsNow(k) :
          /\ Within(DrawnPointsNow(k)[j].x, chartWidth)
          /\ Within(DrawnPointsNow(k)[j].y, chartHeight)

\* x = -Infinity, 5: the point of the 5 has y = NaN
C21_FinitePointOffThePlot ==
    /\ Showing("charts")
    /\ selectedParams = <<"x">>
    /\ Len(Rows) = 2
    /\ Rows[1].x = Str(<<"-">> \o InfinityText)
    /\ Rows[2].x = Str(<<"5">>)
    /\ MinYNow = NegInf
    /\ IsNaN(DrawnPointsNow(1)[2].y)

\* the same, for the charts all of whose values are finite
C21_FiniteValues ==
    (Showing("charts") /\ ChartAreaNow.kind = "svg" /\ Len(AllValuesNow) > 0
       /\ \A i \in DOMAIN AllValuesNow : IsFinite(AllValuesNow[i])) =>
      \A k \in DOMAIN ChartParamsNow :
        \A j \in DOMAIN DrawnPointsNow(k) :
          /\ Within(DrawnPointsNow(k)[j].x, chartWidth)
          /\ Within(DrawnPointsNow(k)[j].y, chartHeight)

\* all values equal (range falls back to 1) on a single row: x = 0, y = 240
C21_SingleRowConstant ==
    /\ Showing("charts")
    /\ selectedParams = <<"x">>
    /\ Len(Rows) = 1
    /\ Rows[1].x = Str(<<"5">>)
    /\ YRangeNow = Int2Num(1)
    /\ DrawnPointsNow(1)[1] = [x |-> Zero, y |-> chartHeight, valid |-> TRUE]

\* the k-th parameter of the chart shown has no number in any row
EmptySeries(k) == NumericRows(ChartParamsNow[k].name) = {}

\* C22: a selected parameter without a numeric value contributes no shape
\* to the chart, and the Y domain (min, max, range) and the Y tick values
\* stay finite, also when every selected parameter is without a value.
C22_EmptySeriesSkipped ==
    (Showing("charts") /\ ChartAreaNow.kind = "svg"
       /\ \E k \in DOMAIN ChartParamsNow : EmptySeries(k)) =>
      /\ \A k \in DOMAIN ChartParamsNow :
            EmptySeries(k) => (ChartAreaNow.series[k].marks = <<>> /\ ~HasTrendLine(k))
      /\ IsFinite(MinYNow)
      /\ IsFinite(MaxYNow)
      /\ IsFinite(YRangeNow)
      /\ \A t \in DOMAIN ChartAreaNow.yTicks : IsFinite(ChartAreaNow.yTicks[t].value)

\* A = abc alone in the chart: min = Infinity, max = -Infinity, NaN ticks
C22_NoValueAtAll ==
    /\ Showing("charts")
    /\ selectedParams = <<"A">>
    /\ Len(Rows) = 1
    /\ NumericRows("A") = {}
    /\ ChartAreaNow.kind = "svg"
    /\ MinYNow = PosInf
    /\ MaxYNow = NegInf
    /\ YRangeNow = NegInf
    /\ \A t \in DOMAIN ChartAreaNow.yTicks : IsNaN(ChartAreaNow.yTicks[t].value)

\* the same, when another selected parameter has finite values
C22_WithAnotherSeries ==
    (Showing("charts") /\ ChartAreaNow.kind = "svg"
       /\ (\E k \in DOMAIN ChartParamsNow : EmptySeries(k))
       /\ Len(AllValuesNow) > 0
       /\ \A i \in DOMAIN AllValuesNow : IsFinite(AllValuesNow[i])) =>
      /\ \A k \in DOMAIN ChartParamsNow :
            EmptySeries(k) => (ChartAreaNow.series[k].marks = <<>> /\ ~HasTrendLine(k))
      /\ IsFinite(MinYNow)
      /\ IsFinite(MaxYNow)
      /\ IsFinite(YRangeNow)
      /\ \A t \in DOMAIN ChartAreaNow.yTicks : IsFinite(ChartAreaNow.yTicks[t].value)

\* the rows whose cell for a parameter is a finite number
FiniteRows(name) == {i \in NumericRows(name) : IsFinite(RowNumber(name, i))}

\* C23: every element of a parameter's values is a finite number: a cell
\* that parses to Infinity or -Infinity is left out of values and of n like
\* a non-numeric cell.
C23_ValuesAreFinite ==
    Open =>
      \A name \in ParamNames :
        IF FiniteRows(name) = {} THEN statistics[name] = Null
        ELSE /\ statistics[name] # Null
             /\ statistics[name].n = Cardinality(FiniteRows(name))
             /\ \A i \in DOMAIN statistics[name].values :
                   IsFinite(statistics[name].values[i])

\* x = 5, Infinity: n = 2 and Infinity among the values
C23_InfinityKept ==
    /\ Open
    /\ ParamNames = {"x"}
    /\ Len(Rows) = 2
    /\ Rows[1].x = Str(<<"5">>)
    /\ Rows[2].x = Str(InfinityText)
    /\ statistics["x"].n = 2
    /\ statistics["x"].values = <<Int2Num(5), PosInf>>
    /\ statistics["x"].mean = PosInf

(***************************************************************************)
(* NewExperimentModal: the three-step wizard that creates an experiment,   *)
(* mounted by Dashboard while showNewExp is set.  The ids given by         *)
(* Date.now() are modelled as the least number not in use in the list; the *)
(* unit of a parameter is left empty.                                      *)
(***************************************************************************)

\* the most parameters and data rows the wizard holds
MaxParams == 2

MaxDataRows == 1

\* some of the characters trim takes off
WhiteSpace == {" ", "\t", "\n"}

RECURSIVE TrimStart(_)
TrimStart(s) == IF s # <<>> /\ Head(s) \in WhiteSpace THEN TrimStart(Tail(s)) ELSE s

RECURSIVE TrimEnd(_)
TrimEnd(s) ==
    IF s # <<>> /\ s[Len(s)] \in WhiteSpace THEN TrimEnd(SubSeq(s, 1, Len(s) - 1)) ELSE s

\* String.prototype.trim
Trim(s) == TrimEnd(TrimStart(s))

\* the texts typed as the experiment's name
NameInputs == {<<>>, <<" ">>, <<"e">>}

\* the texts typed as a parameter's name
ParamNameInputs == {<<" ">>, <<"a">>, <<"b">>}

\* the texts typed into a data cell
CellInputs == {"5"}

\* the results the upload endpoints answer with
UploadResults ==
    { [parameters |-> <<>>, data |-> <<>>],
      [parameters |-> <<[name |-> <<"a">>, unit |-> <<>>]>>,
       data |-> << (<<"a">> :> "5") >>],
      [parameters |-> <<[name |-> <<"a">>, unit |-> <<>>],
                        [name |-> <<"b">>, unit |-> <<>>]>>,
       data |-> <<>>] }

Ids(items) == {items[i].id : i \in DOMAIN items}

\* Date.now() as an id of a new element of items
NewId(items) == CHOOSE n \in 1..(Len(items) + 1) :
                    /\ n \notin Ids(items)
                    /\ \A m \in 1..(n - 1) : m \in Ids(items)

\* a row with an empty cell for every parameter
EmptyRow(id, params) == [id |-> id, cells |-> [n \in Names(params) |-> ""]]

\* Dashboard: onAdd={() => setShowNewExp(true)} mounts the wizard
OnAdd ==
    /\ showNewExp = FALSE
    /\ showNewExp' = TRUE
    /\ step' = 1
    /\ experimentName' = <<>>
    /\ parameters' = <<>>
    /\ dataRows' = <<>>
    /\ newParam' = [name |-> <<>>, unit |-> <<>>]
    /\ loading' = FALSE
    /\ uploadLoading' = FALSE
    /\ uploadSuccess' = FALSE
    /\ created' = Null
    /\ UNCHANGED notWizardVars

\* setShowNewExp(false) unmounts the wizard: its state is gone, and what a
\* pending request sets afterwards has no effect
Unmount ==
    /\ showNewExp' = FALSE
    /\ step' = 1
    /\ experimentName' = <<>>
    /\ parameters' = <<>>
    /\ dataRows' = <<>>
    /\ newParam' = [name |-> <<>>, unit |-> <<>>]
    /\ loading' = FALSE
    /\ uploadLoading' = FALSE
    /\ uploadSuccess' = FALSE
    /\ UNCHANGED created
    /\ UNCHANGED notWizardVars

\* the backdrop and the X button: onClose
WizardClose ==
    /\ showNewExp
    /\ Unmount

\* onChange of the name input of step 1
SetName(text) ==
    /\ showNewExp /\ step = 1
    /\ experimentName' = text
    /\ UNCHANGED <<showNewExp, step, parameters, dataRows, newParam,
                   loading, uploadLoading, uploadSuccess, created>>
    /\ UNCHANGED notWizardVars

\* onChange of the parameter name input of step 2
SetNewParam(text) ==
    /\ showNewExp /\ step = 2
    /\ newParam' = [newParam EXCEPT !.name = text]
    /\ UNCHANGED <<showNewExp, step, experimentName, parameters, dataRows,
                   loading, uploadLoading, uploadSuccess, created>>
    /\ UNCHANGED notWizardVars

\* the parameters after addParameter: only an empty name is rejected
AddedParameter(params, param) ==
    IF Trim(param.name) = <<>> THEN params
    ELSE Append(params, [id |-> NewId(params), name |-> param.name,
                         unit |-> param.unit])

\* addParameter: the + button of step 2, or Enter in one of its inputs
AddParameter ==
    /\ showNewExp /\ step = 2
    /\ Trim(newParam.name) # <<>>
    /\ Len(parameters) < MaxParams
    /\ parameters' = AddedParameter(parameters, newParam)
    /\ newParam' = [name |-> <<>>, unit |-> <<>>]
    /\ UNCHANGED <<showNewExp, step, experimentName, dataRows,
                   loading, uploadLoading, uploadSuccess, created>>
    /\ UNCHANGED notWizardVars

\* removeParameter(id): the bin button of a parameter of step 2
RemoveParameter(id) ==
    /\ showNewExp /\ step = 2
    /\ id \in Ids(parameters)
    /\ parameters' = SelectSeq(parameters, LAMBDA p : p.id # id)
    /\ UNCHANGED <<showNewExp, step, experimentName, dataRows, newParam,
                   loading, uploadLoading, uploadSuccess, created>>
    /\ UNCHANGED notWizardVars

\* addDataRow: the Add Row button of step 3
AddDataRow ==
    /\ showNewExp /\ step = 3
    /\ Len(dataRows) < MaxDataRows
    /\ dataRows' = Append(dataRows, EmptyRow(NewId(dataRows), parameters))
    /\ UNCHANGED <<showNewExp, step, experimentName, parameters, newParam,
                   loading, uploadLoading, uploadSuccess, created>>
    /\ UNCHANGED notWizardVars

\* updateDataCell(rowId, paramName, value): typing into a cell of step 3
UpdateDataCell(rowId, paramName, value) ==
    /\ showNewExp /\ step = 3
    /\ rowId \in Ids(dataRows)
    /\ paramName \in Names(parameters)
    /\ dataRows' = [i \in DOMAIN dataRows |->
                      IF dataRows[i].id = rowId
                      THEN [dataRows[i] EXCEPT
                              !.cells = Put(dataRows[i].cells, paramName, value)]
                      ELSE dataRows[i]]
    /\ UNCHANGED <<showNewExp, step, experimentName, parameters, newParam,
                   loading, uploadLoading, uploadSuccess, created>>
    /\ UNCHANGED notWizardVars

\* removeDataRow(rowId): the bin button of a row of step 3
RemoveDataRow(rowId) ==
    /\ showNewExp /\ step = 3
    /\ rowId \in Ids(dataRows)
    /\ dataRows' = SelectSeq(dataRows, LAMBDA r : r.id # rowId)
    /\ UNCHANGED <<showNewExp, step, experimentName, parameters, newParam,
                   loading, uploadLoading, uploadSuccess, created>>
    /\ UNCHANGED notWizardVars

\* handleExcelUpload and handleImageUpload up to their fetch: a file chosen
\* with one of the two upload buttons of step 1
StartUpload ==
    /\ showNewExp /\ step = 1
    /\ ~uploadSuccess /\ ~uploadLoading
    /\ uploadLoading' = TRUE
    /\ uploadSuccess' = FALSE
    /\ UNCHANGED <<showNewExp, step, experimentName, parameters, dataRows,
                   newParam, loading, created>>
    /\ UNCHANGED notWizardVars

\* result.parameters.map((p, i) => ({ id: Date.now() + i, ... }))
ImportedParameters(result) ==
    [i \in DOMAIN result.parameters |->
        [id |-> i, name |-> result.parameters[i].name,
         unit |-> result.parameters[i].unit]]

\* result.data.map((row, i) => ({ id: Date.now() + i, ...row }))
ImportedRows(result) ==
    [i \in DOMAIN result.data |-> [id |-> i, cells |-> result.data[i]]]

\* the upload handlers after a successful answer
UploadDone(result) ==
    /\ showNewExp /\ uploadLoading
    /\ parameters' = IF Len(result.parameters) > 0
                     THEN ImportedParameters(result) ELSE parameters
    /\ dataRows' = IF Len(result.data) > 0
                   THEN ImportedRows(result) ELSE dataRows
    /\ uploadSuccess' = TRUE
    /\ uploadLoading' = FALSE
    /\ UNCHANGED <<showNewExp, step, experimentName, newParam, loading, created>>
    /\ UNCHANGED notWizardVars

\* the upload handlers after a failed request: catch and finally
UploadFailed ==
    /\ showNewExp /\ uploadLoading
    /\ uploadLoading' = FALSE
    /\ UNCHANGED <<showNewExp, step, experimentName, parameters, dataRows,
                   newParam, loading, uploadSuccess, created>>
    /\ UNCHANGED notWizardVars

\* resetUpload: "Upload different file" of step 1
ResetUpload ==
    /\ showNewExp /\ step = 1 /\ uploadSuccess
    /\ parameters' = <<>>
    /\ dataRows' = <<>>
    /\ uploadSuccess' = FALSE
    /\ UNCHANGED <<showNewExp, step, experimentName, newParam,
                   loading, uploadLoading, created>>
    /\ UNCHANGED notWizardVars

\* "Edit Data" of step 1: onClick={() => setStep(3)}
EditData ==
    /\ showNewExp /\ step = 1 /\ uploadSuccess
    /\ step' = 3
    /\ UNCHANGED <<showNewExp, experimentName, parameters, dataRows, newParam,
                   loading, uploadLoading, uploadSuccess, created>>
    /\ UNCHANGED notWizardVars

\* the Back button: setStep(Math.max(1, step - 1)), disabled at step 1
Back ==
    /\ showNewExp /\ step # 1
    /\ step' = IF step - 1 > 1 THEN step - 1 ELSE 1
    /\ UNCHANGED <<showNewExp, experimentName, parameters, dataRows, newParam,
                   loading, uploadLoading, uploadSuccess, created>>
    /\ UNCHANGED notWizardVars

\* the rows after goToStep3
RowsForStep3(rows, params) ==
    IF Len(rows) = 0 THEN <<EmptyRow(NewId(rows), params)>> ELSE rows

\* the Next button of steps 1 and 2:
\* step === 2 ? goToStep3() : setStep(step + 1)
NextStep ==
    /\ showNewExp /\ step < 3
    /\ ~(step = 1 /\ Trim(experimentName) = <<>>)
    /\ ~(step = 2 /\ Len(parameters) = 0)
    /\ IF step = 2
       THEN /\ dataRows' = RowsForStep3(dataRows, parameters)
            /\ step' = 3
       ELSE /\ step' = step + 1
            /\ UNCHANGED dataRows
    /\ UNCHANGED <<showNewExp, experimentName, parameters, newParam,
                   loading, uploadLoading, uploadSuccess, created>>
    /\ UNCHANGED notWizardVars

\* row[p.name] of a wizard row: undefined when the row has no such key
RowCell(row, n) == IF n \in DOMAIN row.cells THEN row.cells[n] ELSE "undefined"

\* the argument handleSubmit gives to onCreate
Submitted(n, params, rows) ==
    [name |-> n,
     parameters |-> [i \in DOMAIN params |->
                       [name |-> params[i].name, unit |-> params[i].unit]],
     data |-> [i \in DOMAIN rows |->
                 [k \in Names(params) |-> RowCell(rows[i], k)]]]

\* whether handleSubmit gets to onCreate
Submits(n, params) == Trim(n) # <<>>

\* handleSubmit up to onCreate: the Create Experiment button of step 3,
\* disabled while loading and without data rows
HandleSubmit ==
    /\ showNewExp /\ step = 3
    /\ ~loading /\ Len(dataRows) # 0
    /\ Submits(experimentName, parameters)
    /\ loading' = TRUE
    /\ created' = Submitted(experimentName, parameters, dataRows)
    /\ UNCHANGED <<showNewExp, step, experimentName, parameters, dataRows,
                   newParam, uploadLoading, uploadSuccess>>
    /\ UNCHANGED notWizardVars

\* Dashboard.handleCreateExperiment after api.createExperiment succeeded:
\* setShowNewExp(false)
CreateDone ==
    /\ showNewExp /\ loading
    /\ Unmount

\* api.createExperiment failed: handleCreateExperiment catches, and
\* handleSubmit's finally does setLoading(false)
CreateFailed ==
    /\ showNewExp /\ loading
    /\ loading' = FALSE
    /\ UNCHANGED <<showNewExp, step, experimentName, parameters, dataRows,
                   newParam, uploadLoading, uploadSuccess, created>>
    /\ UNCHANGED notWizardVars

WizardNext ==
    \/ OnAdd
    \/ WizardClose
    \/ \E text \in NameInputs : SetName(text)
    \/ \E text \in ParamNameInputs : SetNewParam(text)
    \/ AddParameter
    \/ \E id \in 1..MaxParams : RemoveParameter(id)
    \/ AddDataRow
    \/ \E rowId \in 1..MaxDataRows, paramName \in ParamNameInputs,
          value \in CellInputs : UpdateDataCell(rowId, paramName, value)
    \/ \E rowId \in 1..MaxDataRows : RemoveDataRow(rowId)
    \/ StartUpload
    \/ \E result \in UploadResults : UploadDone(result)
    \/ UploadFailed
    \/ ResetUpload
    \/ EditData
    \/ Back
    \/ NextStep
    \/ HandleSubmit
    \/ CreateDone
    \/ CreateFailed

WizardSpec == Init /\ [][WizardNext]_vars

(***************************************************************************)
(* Properties of the wizard.                                               *)
(***************************************************************************)

\* no two elements of a parameter list have the same name
UniqueNames(params) ==
    \A i, j \in DOMAIN params : params[i].name = params[j].name => i = j

\* C24: parameter names are unique within an experiment: whatever was
\* added, removed and imported in the wizard, no two parameters of the
\* experiment being built, nor of the one handed to onCreate, have the same
\* name.
C24_ParameterNamesUnique ==
    /\ UniqueNames(parameters)
    /\ created # Null => UniqueNames(created.parameters)

\* "a" added twice at step 2 of the wizard
C24_SameNameTwice ==
    /\ showNewExp
    /\ Len(parameters) = 2
    /\ parameters[1].name = <<"a">>
    /\ parameters[2].name = <<"a">>
    /\ parameters[1].id # parameters[2].id

\* and handed to onCreate like that
C24_SubmittedWithSameName ==
    /\ created # Null
    /\ Len(created.parameters) = 2
    /\ created.parameters[1].name = created.parameters[2].name

\* C29: every experiment handed to onCreate by the wizard has a name that
\* is not empty after trimming, and at least one parameter, whatever
\* navigation, imports, upload resets and parameter removals came before.
C29_SubmittedHasNameAndParameter ==
    created # Null =>
      /\ Trim(created.name) # <<>>
      /\ Len(created.parameters) >= 1

\* the name alone: handleSubmit returns on a name empty after trimming
C29_SubmittedHasName ==
    created # Null => Trim(created.name) # <<>>

\* an import, its parameters removed at step 2, Back to step 1, Edit Data,
\* Create Experiment: an experiment of no parameter, its rows empty objects
C29_SubmittedWithoutParameters ==
    /\ showNewExp /\ loading
    /\ step = 3
    /\ uploadSuccess
    /\ parameters = <<>>
    /\ Len(dataRows) = 1
    /\ dataRows[1].cells = (<<"a">> :> "5")
    /\ created # Null
    /\ created.parameters = <<>>
    /\ Len(created.data) = 1
    /\ DOMAIN created.data[1] = {}

(***************************************************************************)
(* ChangeReasonModal: the reason for a change, asked before an update.     *)
(* Its parent is the one of the usage guide: onClose hides the modal,      *)
(* onSubmit starts the update and leaves the modal as it is.               *)
(***************************************************************************)

\* the longest run of letters typed as a reason
MaxReason == 11

\* n times the character c
Repeat(c, n) == [i \in 1..n |-> c]

\* the reasons typed: letters with white space before and after, two words,
\* and white space alone
ReasonInputs ==
    {l \o Repeat("x", n) \o r :
        l \in {<<>>, <<" ">>, <<"\t">>}, n \in 0..MaxReason, r \in {<<>>, <<"\n">>}}
      \cup {Repeat("x", n) \o <<" ">> \o Repeat("y", 4) : n \in 4..6}

\* the least length of a reason after trim
MinReasonLength == 10

\* the parent sets isOpen
OpenReasonModal ==
    /\ ~isOpen
    /\ isOpen' = TRUE
    /\ called' = <<>>
    /\ UNCHANGED <<reason, error>>
    /\ UNCHANGED notReasonVars

\* onChange of the textarea: setReason(e.target.value); setError('')
SetReason(text) ==
    /\ isOpen
    /\ reason' = text
    /\ error' = NoText
    /\ called' = <<>>
    /\ UNCHANGED isOpen
    /\ UNCHANGED notReasonVars

\* the error handleSubmit finds in the reason, '' if none
Validate_NotEmpty(text) ==
    IF Trim(text) = <<>> THEN "Change reason is required for compliance"
    ELSE NoText

Validate_Untrimmed(text) ==
    IF Trim(text) = <<>> THEN "Change reason is required for compliance"
    ELSE IF Len(text) < MinReasonLength
    THEN "Please provide a more detailed reason (at least 10 characters)"
    ELSE NoText

Validate(text) ==
    IF Trim(text) = <<>> THEN "Change reason is required for compliance"
    ELSE IF Len(Trim(text)) < MinReasonLength
    THEN "Please provide a more detailed reason (at least 10 characters)"
    ELSE NoText

\* handleSubmit: the Confirm & Save button
ReasonSubmit ==
    /\ isOpen
    /\ IF Validate(reason) # NoText
       THEN /\ error' = Validate(reason)
            /\ called' = <<>>
            /\ UNCHANGED reason
       ELSE /\ called' = <<[f |-> "onSubmit", arg |-> reason]>>
            /\ reason' = <<>>
            /\ error' = NoText
    /\ UNCHANGED isOpen
    /\ UNCHANGED notReasonVars

\* handleCancel: the X and the Cancel Edit buttons; onClose hides the modal
ReasonCancel ==
    /\ isOpen
    /\ reason' = <<>>
    /\ error' = NoText
    /\ called' = <<[f |-> "onClose", arg |-> <<>>]>>
    /\ isOpen' = FALSE
    /\ UNCHANGED notReasonVars

\* handleBackdropClick: e.stopPropagation() and nothing else
BackdropClick ==
    /\ isOpen
    /\ called' = <<>>
    /\ UNCHANGED <<isOpen, reason, error>>
    /\ UNCHANGED notReasonVars

ReasonNext ==
    \/ OpenReasonModal
    \/ \E text \in ReasonInputs : SetReason(text)
    \/ ReasonSubmit
    \/ ReasonCancel
    \/ BackdropClick

ReasonSpec == Init /\ [][ReasonNext]_vars

(***************************************************************************)
(* Properties of ChangeReasonModal.                                        *)
(***************************************************************************)

\* the characters of a text that are not white space
Inked(text) == {i \in DOMAIN text : text[i] \notin {" ", "\t", "\n"}}

\* the length of a text from its first to its last such character
TrimmedLength(text) ==
    IF Inked(text) = {} THEN 0
    ELSE (CHOOSE i \in Inked(text) : \A j \in Inked(text) : j <= i)
         - (CHOOSE i \in Inked(text) : \A j \in Inked(text) : j >= i) + 1

CalledOnSubmit == \E i \in DOMAIN called : called[i].f = "onSubmit"

\* C25: Confirm & Save hands the reason to onSubmit, and calls nothing
\* else, when the trimmed reason has at least 10 characters; on a shorter or
\* empty one it sets a validation error, keeps the reason and calls
\* neither onSubmit nor onClose.  A click on the backdrop calls neither, and
\* no other handler calls onSubmit.
C25_ReasonValidatedBeforeSubmit ==
    [][/\ ReasonSubmit =>
            IF TrimmedLength(reason) >= 10
            THEN called' = <<[f |-> "onSubmit", arg |-> reason]>>
            ELSE /\ called' = <<>>
                 /\ error' # NoText
                 /\ reason' = reason
                 /\ isOpen'
       /\ BackdropClick => called' = <<>> /\ isOpen'
       /\ CalledOnSubmit' => TrimmedLength(called'[1].arg) >= 10]_vars

\* a reason of nine letters between white space was refused
C25_NineLettersRefused ==
    /\ isOpen
    /\ reason = <<" ">> \o Repeat("x", 9) \o <<"\n">>
    /\ error = "Please provide a more detailed reason (at least 10 characters)"
    /\ called = <<>>

\* a reason of ten letters was handed to onSubmit
C25_TenLettersSubmitted ==
    /\ isOpen
    /\ called = <<[f |-> "onSubmit", arg |-> Repeat("x", 10)]>>
    /\ reason = <<>>
    /\ error = NoText

\* white space alone was refused
C25_WhiteSpaceRefused ==
    /\ isOpen
    /\ reason = <<" ", "\n">>
    /\ error = "Change reason is required for compliance"
    /\ called = <<>>

(***************************************************************************)
(* The coefficient of variation where it is shown: the CV% column of       *)
(* StatisticsTab and the High Variance card of OverviewTab.                *)
(***************************************************************************)

\* the integer part of the square root of v
RECURSIVE ISqrt(_)
ISqrt(v) ==
    IF v < 2 THEN v
    ELSE LET s == 2 * ISqrt(v \div 4)
         IN  IF (s + 1) * (s + 1) <= v THEN s + 1 ELSE s

\* r.toFixed(1): "NaN", "Infinity", "-Infinity", or the tenths of r rounded
\* to the nearest
ToFixed1(r) ==
    CASE r.k = "nan" -> [text |-> "NaN", tenths |-> 0]
      [] r.k = "inf" -> [text |-> "Infinity", tenths |-> 0]
      [] r.k = "ninf" -> [text |-> "-Infinity", tenths |-> 0]
      [] OTHER -> [text |-> "digits",
                   tenths |-> r.s * ((ISqrt((400 * r.n) \div r.d) + 1) \div 2)]

\* the CV% cell of a row of the statistics table
CvCell(stats) ==
    [color |-> IF RootGt(stats.cv, NumRoot(Int2Num(20))) THEN "orange" ELSE "gray",
     shown |-> ToFixed1(stats.cv)]

\* the rows of the statistics table: none for a parameter without stats
StatisticsTab(params, stats) ==
    [i \in DOMAIN params |->
        IF stats[params[i].name] = Null THEN Null
        ELSE [name |-> params[i].name, cv |-> CvCell(stats[params[i].name])]]

\* s.stats?.cv || 0
CvOrZero(stats) == IF Truthy(stats.cv) THEN stats.cv ELSE RootZero

\* the value of the High Variance card
HighVariance(params, stats) ==
    Cardinality({i \in DOMAIN params :
                   /\ stats[params[i].name] # Null
                   /\ RootGt(CvOrZero(stats[params[i].name]),
                             NumRoot(Int2Num(20)))})

\* the statistics table and the High Variance card of the open modal
StatisticsTabNow == StatisticsTab(selectedExperiment.parameters, statistics)

HighVarianceNow == HighVariance(selectedExperiment.parameters, statistics)

\* the parameters whose coefficient of variation is a finite number above 20
FiniteHighVariance ==
    {i \in DOMAIN selectedExperiment.parameters :
        LET s == statistics[selectedExperiment.parameters[i].name]
        IN  /\ s # Null
            /\ s.cv.k = "fin"
            /\ RootGt(s.cv, NumRoot(Int2Num(20)))}

\* C26: the callers guard the coefficient of variation of a parameter of
\* mean 0: a cv that is not finite is not displayed in the statistics
\* table, and it is not counted in the High Variance card of the overview.
C26_NonFiniteCvGuarded ==
    /\ Showing("statistics") =>
          \A i \in DOMAIN StatisticsTabNow :
             StatisticsTabNow[i] # Null =>
                StatisticsTabNow[i].cv.shown.text = "digits"
    /\ Showing("overview") => HighVarianceNow = Cardinality(FiniteHighVariance)

\* x = 5, -5: mean 0, cv Infinity, shown as "Infinity%" in orange
C26_InfinityShown ==
    /\ Showing("statistics")
    /\ ParamNames = {"x"}
    /\ Len(Rows) = 2
    /\ Rows[1].x = Str(<<"5">>)
    /\ Rows[2].x = Str(<<"-", "5">>)
    /\ statistics["x"].mean = Zero
    /\ statistics["x"].cv = RootInf(1)
    /\ StatisticsTabNow[1].cv = [color |-> "orange",
                                 shown |-> [text |-> "Infinity", tenths |-> 0]]

\* and counted as a parameter of high variance
C26_InfinityCounted ==
    /\ Showing("overview")
    /\ ParamNames = {"x"}
    /\ Len(Rows) = 2
    /\ Rows[1].x = Str(<<"5">>)
    /\ Rows[2].x = Str(<<"-", "5">>)
    /\ statistics["x"].cv = RootInf(1)
    /\ HighVarianceNow = 1

\* B = 0 alone: mean 0, cv NaN, shown as "NaN%" and not counted
C26_NaNShown ==
    /\ Showing("statistics")
    /\ ParamNames = {"A", "B"}
    /\ statistics["B"] # Null
    /\ statistics["B"].mean = Zero
    /\ statistics["B"].cv = RootNaN
    /\ StatisticsTabNow[2].cv.shown.text = "NaN"
    /\ HighVarianceNow = Cardinality(FiniteHighVariance)

\* where the cv is finite the table shows its tenths: A = 5, 7 has
\* cv = 100 * 1 / 6 = 16.7 (rounded)
C26_FiniteShown ==
    /\ Showing("statistics")
    /\ ParamNames = {"A", "B"}
    /\ statistics["A"] # Null
    /\ statistics["A"].values = <<Int2Num(5), Int2Num(7)>>
    /\ StatisticsTabNow[1].cv = [color |-> "gray",
                                 shown |-> [text |-> "digits", tenths |-> 167]]

(***************************************************************************)
(* Experiments whose parameter names contain the character "-", which is   *)
(* also what joins the two names of a pair into its key.                   *)
(***************************************************************************)

\* three parameters of pairwise distinct names
DashParams ==
    <<[name |-> "a-b", unit |-> ""], [name |-> "a", unit |-> ""],
      [name |-> "b-a", unit |-> ""]>>

DashCells == {Str(<<"5">>), Str(<<"6">>)}

DashKinds == {[parameters |-> DashParams, rows |-> [Names(DashParams) -> DashCells]]}

\* a click on the Analyze button of the card of such an experiment
ClickAnalyzeDash ==
    /\ selectedExperiment = Null
    /\ \E kind \in DashKinds, m \in 0..MaxRows :
          \E data \in DataOf(kind, m) :
             HandleAnalyze([parameters |-> kind.parameters, data |-> data])

KeyNext ==
    \/ ClickAnalyzeDash
    \/ OnClose

KeySpec == Init /\ [][KeyNext]_vars

(***************************************************************************)
(* Properties of the keys of the correlation map.                          *)
(***************************************************************************)

\* the pairs of positions i < j of the parameter list whose correlation the
\* loop computes
ComputedPairs ==
    LET ps == selectedExperiment.parameters
    IN  {ij \in (DOMAIN ps) \X (DOMAIN ps) :
            /\ ij[1] < ij[2]
            /\ PairComputed(statistics[ps[ij[1]].name], statistics[ps[ij[2]].name])}

\* the pair's own entry is in the map, under the pair's key
OwnEntryKept(ij) ==
    LET ps == selectedExperiment.parameters
        key == PairKey(ps[ij[1]].name, ps[ij[2]].name)
    IN  /\ key \in DOMAIN correlations
        /\ correlations[key].param1 = ps[ij[1]].name
        /\ correlations[key].param2 = ps[ij[2]].name

\* one key for each computed pair
KeysApart ==
    /\ \A ij \in ComputedPairs : OwnEntryKept(ij)
    /\ Cardinality(DOMAIN correlations) = Cardinality(ComputedPairs)

\* C27: distinct pairs of parameters are stored under distinct keys of the
\* correlation map, so that no pair's entry overwrites another's, whatever
\* the pairwise distinct names are, names containing "-" included.
C27_DistinctPairsDistinctKeys ==
    (Open /\ DistinctNames) => KeysApart

\* the same for the experiments without "-" in a name
C27_NamesWithoutDash ==
    (Open /\ selectedExperiment.parameters \in {<<>>, OneParam, TwoParams, ThreeParams})
      => KeysApart

\* a-b = 5, 6; a = 5, 6; b-a = 6, 5: the entry of the pair (a-b, a), value
\* 1, is overwritten by that of the pair (a, b-a), value -1, both under the
\* key "a-b-a"; the matrix shows -1 for a-b and a
C27_EntryOverwritten ==
    /\ Open
    /\ selectedExperiment.parameters = DashParams
    /\ Len(Rows) = 2
    /\ ComputedPairs = {<<1, 2>>, <<1, 3>>, <<2, 3>>}
    /\ DOMAIN correlations = {"a-b-a", "a-b-b-a"}
    /\ correlations["a-b-a"].param1 = "a"
    /\ correlations["a-b-a"].param2 = "b-a"
    /\ correlations["a-b-a"].value = NumRoot(Int2Num(-1))
    /\ Correlation(statistics["a-b"], statistics["a"]) = NumRoot(Int2Num(1))
    /\ GetCorrelation(correlations, "a-b", "a") = NumRoot(Int2Num(-1))

(***************************************************************************)
(* App and Dashboard: the current project, the requests in flight and the  *)
(* analyzing flag.  A project is reduced to its id and stage.  A request   *)
(* carries what the closure that awaits it holds: the project that was     *)
(* current when its handler started, and whether the Dashboard that        *)
(* started it is still mounted.                                            *)
(***************************************************************************)

\* the most requests in flight, and the most projects on the server
MaxPending == 2

MaxProjects == 3

\* the stages set in the model (two of STAGES)
StageIds == {"brainstorm", "experiment"}

\* the pages navigated to (two of the Sidebar's)
pages == {"dashboard", "projects"}

Request(kind, project, stage, live) ==
    [kind |-> kind, project |-> project, stage |-> stage, live |-> live]

\* the requests without the i-th
Without(reqs, i) == [k \in 1..(Len(reqs) - 1) |-> IF k < i THEN reqs[k] ELSE reqs[k + 1]]

\* the requests with the i-th replaced
Replaced(reqs, i, req) == [reqs EXCEPT ![i] = req]

\* {currentProject ? (currentPage === 'dashboard' && <Dashboard/>) : ...}
DashboardMounted ==
    ~appLoading /\ currentProject # Null /\ currentPage = "dashboard"

\* the handlers of an unmounted Dashboard set the state of no component
Orphaned(reqs) == [k \in DOMAIN reqs |-> [reqs[k] EXCEPT !.live = FALSE]]

\* loadProjects after api.getProjects answered; currentProject is null in
\* the closure of the mount
LoadProjectsDone ==
    /\ appLoading
    /\ projects' = server
    /\ currentProject' = IF Len(server) > 0 THEN server[1] ELSE currentProject
    /\ appLoading' = FALSE
    /\ UNCHANGED <<currentPage, requests, server, lastChosen, analyzing>>
    /\ UNCHANGED notAppVars

\* loadProjects after api.getProjects failed
LoadProjectsFailed ==
    /\ appLoading
    /\ appLoading' = FALSE
    /\ UNCHANGED <<projects, currentProject, currentPage, requests, server,
                   lastChosen, analyzing>>
    /\ UNCHANGED notAppVars

\* Sidebar onNavigate={setCurrentPage}; leaving the dashboard unmounts
\* Dashboard, coming back mounts a new one
Navigate(page) ==
    /\ ~appLoading
    /\ page # currentPage
    /\ currentPage' = page
    /\ analyzing' = FALSE
    /\ requests' = IF DashboardMounted THEN Orphaned(requests) ELSE requests
    /\ UNCHANGED <<appLoading, projects, currentProject, server, lastChosen>>
    /\ UNCHANGED notAppVars

\* handleSelectProject(project): a project of the Sidebar or of ProjectsPage
HandleSelectProject(i) ==
    /\ ~appLoading
    /\ i \in DOMAIN projects
    /\ currentProject' = projects[i]
    /\ currentPage' = "dashboard"
    /\ lastChosen' = projects[i].id
    /\ UNCHANGED <<appLoading, projects, requests, server, analyzing>>
    /\ UNCHANGED notAppVars

\* Dashboard onStageChange up to its await: api.updateProject(project.id, ...)
OnStageChange(stage) ==
    /\ DashboardMounted
    /\ Len(requests) < MaxPending
    /\ requests' = Append(requests,
                          Request("updateProject", currentProject.id, stage, FALSE))
    /\ UNCHANGED <<appLoading, projects, currentProject, currentPage, server,
                   lastChosen, analyzing>>
    /\ UNCHANGED notAppVars

\* NextStepsSection.handleToggle up to its await: api.toggleTask(taskId)
HandleToggle ==
    /\ DashboardMounted
    /\ Len(requests) < MaxPending
    /\ requests' = Append(requests,
                          Request("toggleTask", currentProject.id, NoText, FALSE))
    /\ UNCHANGED <<appLoading, projects, currentProject, currentPage, server,
                   lastChosen, analyzing>>
    /\ UNCHANGED notAppVars

\* the server's projects after a request on one of them
Served(srv, req) ==
    [k \in DOMAIN srv |->
        IF req.kind = "updateProject" /\ srv[k].id = req.project
        THEN [srv[k] EXCEPT !.stage = req.stage] ELSE srv[k]]

\* refreshProject up to its await, as the closure of the handler calls it:
\* currentProject is the project of the render the handler started in
RefreshProject(req, current) == Request("getProject", req.project, NoText, FALSE)

\* the update or the toggle answered: onRefresh()
MutationDone(i) ==
    /\ i \in DOMAIN requests
    /\ requests[i].kind \in {"updateProject", "toggleTask"}
    /\ server' = Served(server, requests[i])
    /\ requests' = Replaced(requests, i, RefreshProject(requests[i], currentProject))
    /\ UNCHANGED <<appLoading, projects, currentProject, currentPage,
                   lastChosen, analyzing>>
    /\ UNCHANGED notAppVars

\* the update or the toggle failed: catch
MutationFailed(i) ==
    /\ i \in DOMAIN requests
    /\ requests[i].kind \in {"updateProject", "toggleTask"}
    /\ requests' = Without(requests, i)
    /\ UNCHANGED <<appLoading, projects, currentProject, currentPage, server,
                   lastChosen, analyzing>>
    /\ UNCHANGED notAppVars

\* the project of an id as the server answers it
ServerProject(id) == server[CHOOSE k \in DOMAIN server : server[k].id = id]

\* refreshProject after api.getProject answered:
\* setCurrentProject(updated); setProjects(prev => prev.map(...))
GetProjectDone(i) ==
    /\ i \in DOMAIN requests
    /\ requests[i].kind = "getProject"
    /\ LET updated == ServerProject(requests[i].project)
       IN  /\ currentProject' = updated
           /\ projects' = [k \in DOMAIN projects |->
                             IF projects[k].id = updated.id THEN updated
                             ELSE projects[k]]
    /\ requests' = Without(requests, i)
    /\ UNCHANGED <<appLoading, currentPage, server, lastChosen, analyzing>>
    /\ UNCHANGED notAppVars

\* refreshProject after api.getProject failed
GetProjectFailed(i) ==
    /\ i \in DOMAIN requests
    /\ requests[i].kind = "getProject"
    /\ requests' = Without(requests, i)
    /\ UNCHANGED <<appLoading, projects, currentProject, currentPage, server,
                   lastChosen, analyzing>>
    /\ UNCHANGED notAppVars

CreatesInFlight == Len(SelectSeq(requests, LAMBDA r : r.kind = "createProject"))

\* handleCreateProject up to its await (NewProjectModal's onCreate)
StartCreateProject ==
    /\ ~appLoading
    /\ Len(requests) < MaxPending
    /\ Len(server) + CreatesInFlight < MaxProjects
    /\ requests' = Append(requests, Request("createProject", 0, NoText, FALSE))
    /\ UNCHANGED <<appLoading, projects, currentProject, currentPage, server,
                   lastChosen, analyzing>>
    /\ UNCHANGED notAppVars

\* handleCreateProject after api.createProject answered
CreateProjectDone(i) ==
    /\ i \in DOMAIN requests
    /\ requests[i].kind = "createProject"
    /\ LET newProject == [id |-> Len(server) + 1, stage |-> "brainstorm"]
       IN  /\ server' = Append(server, newProject)
           /\ projects' = <<newProject>> \o projects
           /\ currentProject' = newProject
           /\ lastChosen' = newProject.id
    /\ currentPage' = "dashboard"
    /\ requests' = Without(requests, i)
    /\ UNCHANGED <<appLoading, analyzing>>
    /\ UNCHANGED notAppVars

\* handleCreateProject after api.createProject failed
CreateProjectFailed(i) ==
    /\ i \in DOMAIN requests
    /\ requests[i].kind = "createProject"
    /\ requests' = Without(requests, i)
    /\ UNCHANGED <<appLoading, projects, currentProject, currentPage, server,
                   lastChosen, analyzing>>
    /\ UNCHANGED notAppVars

AppNext ==
    \/ LoadProjectsDone
    \/ LoadProjectsFailed
    \/ \E page \in pages : Navigate(page)
    \/ \E i \in 1..MaxProjects : HandleSelectProject(i)
    \/ \E stage \in StageIds : OnStageChange(stage)
    \/ HandleToggle
    \/ \E i \in 1..MaxPending : MutationDone(i)
    \/ \E i \in 1..MaxPending : MutationFailed(i)
    \/ \E i \in 1..MaxPending : GetProjectDone(i)
    \/ \E i \in 1..MaxPending : GetProjectFailed(i)
    \/ StartCreateProject
    \/ \E i \in 1..MaxPending : CreateProjectDone(i)
    \/ \E i \in 1..MaxPending : CreateProjectFailed(i)

AppSpec == Init /\ [][AppNext]_vars

(***************************************************************************)
(* Properties of the current project.                                      *)
(***************************************************************************)

\* C28: the current project is the one the user selected or created last:
\* a refresh started while another project was current never puts that
\* project back, in whatever order the pending requests complete.
C28_CurrentIsLastChosen ==
    (lastChosen # 0 /\ currentProject # Null) => currentProject.id = lastChosen

\* project 2 was selected while the refresh of project 1 was on its way;
\* its answer made project 1 current again
C28_RefreshUndoesSelection ==
    /\ lastChosen = 2
    /\ currentProject # Null
    /\ currentProject.id = 1
    /\ currentProject.stage = "experiment"
    /\ requests = <<>>
    /\ Len(server) = 2

\* without a selection or creation after its start, a refresh keeps the
\* current project: the answer is the project chosen last
C28_RefreshOfTheChosen ==
    [][\A i \in 1..MaxPending :
         (GetProjectDone(i) /\ (lastChosen = 0 \/ requests[i].project = lastChosen))
            => (lastChosen # 0 => currentProject'.id = lastChosen)]_vars

(***************************************************************************)
(* Dashboard.handleAnalyze: the AI analysis started with the button of     *)
(* InsightsSection, disabled while analyzing is set.                       *)
(***************************************************************************)

\* handleAnalyze up to its await: setAnalyzing(true); api.analyze(project.id)
StartAnalysis ==
    /\ DashboardMounted
    /\ ~analyzing
    /\ Len(requests) < MaxPending
    /\ analyzing' = TRUE
    /\ requests' = Append(requests,
                          Request("analyze", currentProject.id, NoText, TRUE))
    /\ UNCHANGED <<appLoading, projects, currentProject, currentPage, server,
                   lastChosen>>
    /\ UNCHANGED notAppVars

\* analyzing after handleAnalyze has run to its end: ok if api.analyze
\* answered, live if the Dashboard that started it is still mounted
AnalyzingAfter_ClearedInTry(ok, live, flag) == IF live /\ ok THEN FALSE ELSE flag

AnalyzingAfter(ok, live, flag) == IF live THEN FALSE ELSE flag

\* handleAnalyze after api.analyze answered: onRefresh(), then finally
AnalyzeDone(i) ==
    /\ i \in DOMAIN requests
    /\ requests[i].kind = "analyze"
    /\ requests' = Replaced(requests, i, RefreshProject(requests[i], currentProject))
    /\ analyzing' = AnalyzingAfter(TRUE, requests[i].live, analyzing)
    /\ UNCHANGED <<appLoading, projects, currentProject, currentPage, server,
                   lastChosen>>
    /\ UNCHANGED notAppVars

\* handleAnalyze after api.analyze failed: catch, then finally
AnalyzeFailed(i) ==
    /\ i \in DOMAIN requests
    /\ requests[i].kind = "analyze"
    /\ requests' = Without(requests, i)
    /\ analyzing' = AnalyzingAfter(FALSE, requests[i].live, analyzing)
    /\ UNCHANGED <<appLoading, projects, currentProject, currentPage, server,
                   lastChosen>>
    /\ UNCHANGED notAppVars

DashboardNext ==
    \/ LoadProjectsDone
    \/ LoadProjectsFailed
    \/ \E page \in pages : Navigate(page)
    \/ \E i \in 1..MaxProjects : HandleSelectProject(i)
    \/ StartAnalysis
    \/ \E i \in 1..MaxPending : AnalyzeDone(i)
    \/ \E i \in 1..MaxPending : AnalyzeFailed(i)
    \/ \E i \in 1..MaxPending : GetProjectDone(i)
    \/ \E i \in 1..MaxPending : GetProjectFailed(i)

DashboardSpec == Init /\ [][DashboardNext]_vars

\* an analysis request in flight is answered or fails
AnalysisSettles == \E i \in 1..MaxPending : AnalyzeDone(i) \/ AnalyzeFailed(i)

\* every request to the server completes, one way or the other
DashboardLiveSpec == DashboardSpec /\ WF_vars(AnalysisSettles)

(***************************************************************************)
(* Properties of the analyzing flag.                                       *)
(***************************************************************************)

\* the analysis request of the mounted Dashboard is in flight
LiveAnalysisInFlight ==
    \E i \in DOMAIN requests : requests[i].kind = "analyze" /\ requests[i].live

\* C30: the analyzing flag is set only while an analysis request of the
\* dashboard is in flight; when that request completes, answered or failed,
\* the flag is cleared; so a set flag is always cleared later and the
\* analyze button becomes usable again.
C30_AnalyzingUntilRequestCompletes ==
    /\ [](analyzing => LiveAnalysisInFlight)
    /\ [][\A i \in 1..MaxPending :
            ((AnalyzeDone(i) \/ AnalyzeFailed(i)) /\ requests[i].live)
               => ~analyzing']_vars
    /\ (analyzing ~> ~analyzing)

\* an analysis was answered: the flag is cleared and the refresh on its way
C30_AnalysisAnswered ==
    /\ DashboardMounted
    /\ ~analyzing
    /\ Len(requests) = 1
    /\ requests[1].kind = "getProject"

\* an analysis in flight, the button disabled
C30_AnalysisInFlight ==
    /\ DashboardMounted
    /\ analyzing
    /\ LiveAnalysisInFlight

====
